---- MODULE Spec2Model ----
(***************************************************************************)
(* Model of the generation pipeline of generator.handlebars:               *)
(*   lib/TemplateSettings.js  (condition evaluation, shouldGenerate)       *)
(*   lib/Template.js          (generate, split processing, export path)    *)
(*                                                                         *)
(* JavaScript values are tagged records:                                   *)
(*   [t |-> "undefined"], [t |-> "null"], [t |-> "bool", b |-> ...],       *)
(*   [t |-> "num", n |-> ...], [t |-> "str", s |-> <<atoms>>],             *)
(*   [t |-> "obj", f |-> [key |-> value]], [t |-> "arr", e |-> <<...>>].   *)
(* A JavaScript string is a sequence of atoms (TLA+ strings), each atom    *)
(* standing for a run of characters that no operation of the pipeline      *)
(* cuts in two.                                                            *)
(***************************************************************************)
EXTENDS Integers, Sequences, FiniteSets, TLC

VARIABLES
    isLoaded,      \* Template._isLoaded
    isGenerated,   \* Template._isGenerated
    result,        \* Template._result : sequence of TemplateResult
    errors,        \* Template._errors
    skippedItems,  \* Template._skippedItems
    name,          \* Template._name
    settings,      \* Template._settings (a TemplateSettings, or Null)
    script,        \* Template._script (the hook module, or Null)
    template,      \* Template._template (the compiled Handlebars body)
    env,           \* process.env
    callerModel,   \* the caller's model object (the argument of generate)
    calls,         \* number of generate calls made so far
    last,          \* observation of the most recent generate call
    prev,          \* observation of the generate call before it
    disk,          \* the file system the results are written to
    loader,        \* a TemplateLoader: its templates, errors and position
    watch,         \* the watch command: its timer and the generation runs it started
    pluginManager  \* a PluginManager: its plugins and hook lists

vars == <<isLoaded, isGenerated, result, errors, skippedItems, name, settings,
          script, template, env, callerModel, calls, last, prev, disk, loader,
          watch, pluginManager>>

-----------------------------------------------------------------------------
(* JavaScript values *)

Undefined == [t |-> "undefined"]
Null == [t |-> "null"]
Bool(b) == [t |-> "bool", b |-> b]
Num(n) == [t |-> "num", n |-> n]
Str(s) == [t |-> "str", s |-> s]
Obj(f) == [t |-> "obj", f |-> f]
Arr(e) == [t |-> "arr", e |-> e]

IsNullish(v) == v.t \in {"undefined", "null"}

\* Atoms that read as decimal numerals, with their values.
NumeralAtoms == <<"0", "1", "2", "3", "4", "5", "6", "7", "8", "9">>
NumeralValue ==
    [a \in {NumeralAtoms[d] : d \in DOMAIN NumeralAtoms} |->
        (CHOOSE d \in DOMAIN NumeralAtoms : NumeralAtoms[d] = a) - 1]

\* Code-unit order of the first character of an atom, as far as the
\* relational operators of a condition need it.
AtomRank == [a \in {" ", "A", "B", "M", "T"} \cup DOMAIN NumeralValue |->
               CASE a = " " -> 32 [] a = "A" -> 65 [] a = "B" -> 66 [] a = "M" -> 77
                 [] a = "T" -> 84 [] OTHER -> 48 + NumeralValue[a]]

WhiteSpace == {" ", "\n"}

\* JavaScript truthiness.
Truthy(v) ==
    CASE v.t = "undefined" -> FALSE
      [] v.t = "null" -> FALSE
      [] v.t = "bool" -> v.b
      [] v.t = "num" -> v.n # 0
      [] v.t = "str" -> v.s # <<>>
      [] OTHER -> TRUE

RECURSIVE Concat(_)
Concat(ss) == IF ss = <<>> THEN <<>> ELSE Head(ss) \o Concat(Tail(ss))

RECURSIVE JoinWith(_, _)
JoinWith(ss, sep) ==
    IF ss = <<>> THEN <<>>
    ELSE IF Len(ss) = 1 THEN ss[1]
    ELSE ss[1] \o sep \o JoinWith(Tail(ss), sep)

\* String(v): the string a value converts to.
RECURSIVE ToStr(_)
ToStr(v) ==
    CASE v.t = "undefined" -> <<"undefined">>
      [] v.t = "null" -> <<"null">>
      [] v.t = "bool" -> IF v.b THEN <<"true">> ELSE <<"false">>
      [] v.t = "num" -> <<CHOOSE a \in DOMAIN NumeralValue : NumeralValue[a] = v.n>>
      [] v.t = "str" -> v.s
      [] v.t = "obj" -> <<"[object Object]">>
      [] v.t = "arr" ->
            JoinWith([i \in 1..Len(v.e) |->
                         IF IsNullish(v.e[i]) THEN <<>> ELSE ToStr(v.e[i])], <<",">>)

\* Number(v): [nan |-> TRUE] or [nan |-> FALSE, n |-> value].
NaN == [nan |-> TRUE]
Number(n) == [nan |-> FALSE, n |-> n]

StrToNumber(s) ==
    LET body == SelectSeq(s, LAMBDA a : a \notin WhiteSpace)
    IN  IF body = <<>> THEN Number(0)
        ELSE IF Len(body) = 1 /\ body[1] \in DOMAIN NumeralValue
             THEN Number(NumeralValue[body[1]])
             ELSE NaN

ToNumber(v) ==
    CASE v.t = "undefined" -> NaN
      [] v.t = "null" -> Number(0)
      [] v.t = "bool" -> Number(IF v.b THEN 1 ELSE 0)
      [] v.t = "num" -> Number(v.n)
      [] v.t = "str" -> StrToNumber(v.s)
      [] OTHER -> StrToNumber(ToStr(v))

ToPrimitive(v) == IF v.t \in {"obj", "arr"} THEN Str(ToStr(v)) ELSE v

\* a == b (loose equality) on values whose objects are compared with primitives
\* only: the expected side of a condition is always a primitive.
LooseEq(a, b) ==
    CASE IsNullish(a) \/ IsNullish(b) -> IsNullish(a) /\ IsNullish(b)
      [] a.t = b.t /\ a.t \in {"bool", "num", "str"} -> a = b
      [] OTHER ->
            LET pa == ToPrimitive(a)
                pb == ToPrimitive(b)
            IN  IF pa.t = "str" /\ pb.t = "str" THEN pa.s = pb.s
                ELSE LET na == ToNumber(pa)
                         nb == ToNumber(pb)
                     IN  ~na.nan /\ ~nb.nan /\ na.n = nb.n

\* Lexicographic a < b on strings of atoms.
RECURSIVE StrLess(_, _)
StrLess(a, b) ==
    IF b = <<>> THEN FALSE
    ELSE IF a = <<>> THEN TRUE
    ELSE IF a[1] = b[1] THEN StrLess(Tail(a), Tail(b))
    ELSE AtomRank[a[1]] < AtomRank[b[1]]

\* a < b (abstract relational comparison).
JsLess(a, b) ==
    LET pa == ToPrimitive(a)
        pb == ToPrimitive(b)
    IN  IF pa.t = "str" /\ pb.t = "str" THEN StrLess(pa.s, pb.s)
        ELSE LET na == ToNumber(pa)
                 nb == ToNumber(pb)
             IN  ~na.nan /\ ~nb.nan /\ na.n < nb.n

\* a <= b: in JavaScript, not (b < a) unless either side is NaN.
JsLessEq(a, b) ==
    LET pa == ToPrimitive(a)
        pb == ToPrimitive(b)
    IN  IF pa.t = "str" /\ pb.t = "str" THEN ~StrLess(pb.s, pa.s)
        ELSE LET na == ToNumber(pa)
                 nb == ToNumber(pb)
             IN  ~na.nan /\ ~nb.nan /\ na.n <= nb.n

IsPrefix(p, s) == Len(p) <= Len(s) /\ SubSeq(s, 1, Len(p)) = p
IsSuffix(p, s) == Len(p) <= Len(s) /\ SubSeq(s, Len(s) - Len(p) + 1, Len(s)) = p
Includes(s, p) == \E i \in 0..(Len(s) - Len(p)) : SubSeq(s, i + 1, i + Len(p)) = p

\* obj[key] for a key that is a string of atoms; the key of an object's
\* property is the single atom naming it.  Own properties of primitives are
\* not modelled (they read as undefined).
GetProp(v, key) ==
    IF v.t = "obj" /\ Len(key) = 1 /\ key[1] \in DOMAIN v.f THEN v.f[key[1]]
    ELSE Undefined

-----------------------------------------------------------------------------
(* String operations *)

\* s.trim()
RECURSIVE TrimLeft(_)
TrimLeft(s) == IF s # <<>> /\ Head(s) \in WhiteSpace THEN TrimLeft(Tail(s)) ELSE s

RECURSIVE TrimRight(_)
TrimRight(s) ==
    IF s # <<>> /\ s[Len(s)] \in WhiteSpace THEN TrimRight(SubSeq(s, 1, Len(s) - 1)) ELSE s

Trim(s) == TrimRight(TrimLeft(s))

\* Position of the first occurrence of the non-empty string p in s, or 0.
IndexOf(s, p) ==
    IF Includes(s, p)
    THEN CHOOSE i \in 1..(Len(s) - Len(p) + 1) :
            /\ SubSeq(s, i, i + Len(p) - 1) = p
            /\ \A j \in 1..(i - 1) : SubSeq(s, j, j + Len(p) - 1) # p
    ELSE 0

\* s.split(sep) for a non-empty literal separator.
RECURSIVE Split(_, _)
Split(s, sep) ==
    LET i == IndexOf(s, sep)
    IN  IF i = 0 THEN <<s>>
        ELSE <<SubSeq(s, 1, i - 1)>> \o Split(SubSeq(s, i + Len(sep), Len(s)), sep)

\* s.replace(p, r) for a literal non-empty p: the first occurrence only.
ReplaceFirst(s, p, r) ==
    LET i == IndexOf(s, p)
    IN  IF i = 0 THEN s
        ELSE SubSeq(s, 1, i - 1) \o r \o SubSeq(s, i + Len(p), Len(s))

\* The maximal runs of non-whitespace atoms of s, in order.
RECURSIVE Words(_)
Words(s) ==
    LET t == TrimLeft(s)
    IN  IF t = <<>> THEN <<>>
        ELSE LET n == CHOOSE k \in 1..Len(t) :
                        /\ \A j \in 1..k : t[j] \notin WhiteSpace
                        /\ (k = Len(t) \/ t[k + 1] \in WhiteSpace)
             IN  <<SubSeq(t, 1, n)>> \o Words(SubSeq(t, n + 1, Len(t)))

\* s.trim().split(/\s+/)
SplitWhitespace(s) == IF Trim(s) = <<>> THEN << <<>> >> ELSE Words(s)

\* s.toLowerCase(), for the atoms a condition operator is written with.
LowerAtom(a) ==
    CASE a = "EQ" -> "eq"
      [] a = "NE" -> "ne"
      [] a = "Exists" -> "exists"
      [] OTHER -> a

ToLowerCase(s) == [i \in 1..Len(s) |-> LowerAtom(s[i])]

-----------------------------------------------------------------------------
(* lib/TemplateSettings.js *)

\* TemplateSettings.getValueByPath(obj, path)
RECURSIVE WalkPath(_, _)
WalkPath(current, parts) ==
    IF parts = <<>> THEN current
    ELSE IF IsNullish(current) THEN Undefined
    ELSE WalkPath(GetProp(current, Head(parts)), Tail(parts))

getValueByPath(obj, path) ==
    IF ~Truthy(obj) \/ path = <<>> THEN Undefined
    ELSE WalkPath(obj, Split(path, <<".">>))

\* The literal coercion of the expected value of a condition.
ParseExpected(expectedValue) ==
    CASE expectedValue = <<"true">> -> Bool(TRUE)
      [] expectedValue = <<"false">> -> Bool(FALSE)
      [] expectedValue = <<"null">> -> Null
      [] expectedValue = <<"undefined">> -> Undefined
      [] OTHER ->
            IF ~StrToNumber(expectedValue).nan /\ expectedValue # <<>>
            THEN Num(StrToNumber(expectedValue).n)
            ELSE Str(expectedValue)

\* Atoms that make a regular expression fail to compile.
RegexInvalid == {"("}

\* new RegExp(pattern).test(s) for a pattern that is a literal or does not
\* compile (the constructor throws and the caller answers false).
RegexTest(pattern, s) ==
    LET src == IF pattern.t = "undefined" THEN <<>> ELSE ToStr(pattern)
    IN  IF \E i \in 1..Len(src) : src[i] \in RegexInvalid THEN FALSE
        ELSE Includes(s, src)

\* TemplateSettings.evaluateCondition(expression, context); expression is
\* Null or a string value.
evaluateCondition(expression, context) ==
    IF ~Truthy(expression) \/ expression.t # "str" THEN TRUE
    ELSE
      LET parts == SplitWhitespace(expression.s)
      IN  IF Len(parts) < 3 THEN TRUE
          ELSE
            LET path == parts[1]
                operator == ToLowerCase(parts[2])
                expectedValue == JoinWith(SubSeq(parts, 3, Len(parts)), <<" ">>)
                actualValue == getValueByPath(context, path)
                parsedExpected == ParseExpected(expectedValue)
            IN  CASE operator \in {<<"eq">>, <<"==">>, <<"===">>} ->
                        LooseEq(actualValue, parsedExpected)
                  [] operator \in {<<"ne">>, <<"!=">>, <<"!==">>} ->
                        ~LooseEq(actualValue, parsedExpected)
                  [] operator \in {<<"gt">>, <<">">>} -> JsLess(parsedExpected, actualValue)
                  [] operator \in {<<"lt">>, <<"<">>} -> JsLess(actualValue, parsedExpected)
                  [] operator \in {<<"gte">>, <<"ge">>, <<">=">>} ->
                        JsLessEq(parsedExpected, actualValue)
                  [] operator \in {<<"lte">>, <<"le">>, <<"<=">>} ->
                        JsLessEq(actualValue, parsedExpected)
                  [] operator = <<"contains">> ->
                        Includes(ToStr(actualValue), ToStr(parsedExpected))
                  [] operator = <<"startswith">> ->
                        IsPrefix(ToStr(parsedExpected), ToStr(actualValue))
                  [] operator = <<"endswith">> ->
                        IsSuffix(ToStr(parsedExpected), ToStr(actualValue))
                  [] operator = <<"matches">> -> RegexTest(parsedExpected, ToStr(actualValue))
                  [] operator = <<"exists">> -> ~IsNullish(actualValue)
                  [] operator = <<"empty">> ->
                        ~Truthy(actualValue) \/ (actualValue.t = "arr" /\ actualValue.e = <<>>)
                  [] OTHER -> TRUE

\* The operators the switch of evaluateCondition has a case for.
KnownOperators ==
    { <<"eq">>, <<"==">>, <<"===">>, <<"ne">>, <<"!=">>, <<"!==">>, <<"gt">>, <<">">>,
      <<"lt">>, <<"<">>, <<"gte">>, <<"ge">>, <<">=">>, <<"lte">>, <<"le">>, <<"<=">>,
      <<"contains">>, <<"startswith">>, <<"endswith">>, <<"matches">>, <<"exists">>,
      <<"empty">> }

\* Mutant of conditionWarns: an operator without a case goes unnoticed.
conditionWarnsOnlyShort(expression) ==
    /\ Truthy(expression) /\ expression.t = "str"
    /\ Len(SplitWhitespace(expression.s)) < 3

\* Whether evaluateCondition(expression, context) calls console.warn: the
\* expression has fewer than three parts, or an operator without a case.
conditionWarns(expression) ==
    /\ Truthy(expression) /\ expression.t = "str"
    /\ LET parts == SplitWhitespace(expression.s)
       IN  Len(parts) < 3 \/ ToLowerCase(parts[2]) \notin KnownOperators

\* expression.startsWith('env:')
IsEnvForm(expression) == expression.s # <<>> /\ expression.s[1] = "env:"

\* process.env[expression.slice(4)]: the variable's string, or undefined.
EnvValue(e, expression) ==
    LET envVar == Tail(expression.s)
    IN  IF envVar \in DOMAIN e THEN Str(e[envVar]) ELSE Undefined

\* Mutant of EnvSet: any non-empty value counts as set.
EnvSetAnyValue(envValue) == Truthy(envValue)

\* envValue && envValue !== 'false' && envValue !== '0'
EnvSet(envValue) == Truthy(envValue) /\ envValue.s # <<"false">> /\ envValue.s # <<"0">>

\* Mutant of shouldGenerate: an env: skipIf is evaluated as a path expression.
shouldGenerateSkipIfNoEnv(s, e, context) ==
    IF ~s.enabled THEN FALSE
    ELSE IF Truthy(s.generateIf) /\ IsEnvForm(s.generateIf)
              /\ ~EnvSet(EnvValue(e, s.generateIf))
         THEN FALSE
    ELSE IF Truthy(s.generateIf) /\ ~IsEnvForm(s.generateIf)
              /\ ~evaluateCondition(s.generateIf, context)
         THEN FALSE
    ELSE IF Truthy(s.skipIf) /\ evaluateCondition(s.skipIf, context)
         THEN FALSE
    ELSE TRUE

\* TemplateSettings.shouldGenerate(context)
shouldGenerate(s, e, context) ==
    IF ~s.enabled THEN FALSE
    ELSE IF Truthy(s.generateIf) /\ IsEnvForm(s.generateIf)
              /\ ~EnvSet(EnvValue(e, s.generateIf))
         THEN FALSE
    ELSE IF Truthy(s.generateIf) /\ ~IsEnvForm(s.generateIf)
              /\ ~evaluateCondition(s.generateIf, context)
         THEN FALSE
    ELSE IF Truthy(s.skipIf) /\ IsEnvForm(s.skipIf) /\ EnvSet(EnvValue(e, s.skipIf))
         THEN FALSE
    ELSE IF Truthy(s.skipIf) /\ ~IsEnvForm(s.skipIf) /\ evaluateCondition(s.skipIf, context)
         THEN FALSE
    ELSE TRUE

\* The expressions console.warn is called for during shouldGenerate(context),
\* in order: generateIf when it is evaluated as a path expression, skipIf
\* when the generateIf check let the call reach it.
shouldGenerateWarnings(s, e, context) ==
    LET generateIfPath == Truthy(s.generateIf) /\ ~IsEnvForm(s.generateIf)
        generateIfStops ==
            IF ~Truthy(s.generateIf) THEN FALSE
            ELSE IF IsEnvForm(s.generateIf) THEN ~EnvSet(EnvValue(e, s.generateIf))
            ELSE ~evaluateCondition(s.generateIf, context)
        skipIfPath == Truthy(s.skipIf) /\ ~IsEnvForm(s.skipIf)
    IN  IF ~s.enabled THEN <<>>
        ELSE (IF generateIfPath /\ conditionWarns(s.generateIf) THEN <<s.generateIf>> ELSE <<>>)
             \o (IF ~generateIfStops /\ skipIfPath /\ conditionWarns(s.skipIf)
                 THEN <<s.skipIf>> ELSE <<>>)

-----------------------------------------------------------------------------
(* TemplateSettings constructor *)

\* initialData.Key || dflt, for initialData a record of JSON values.
OrDefault(initialData, key, dflt) ==
    IF key \in DOMAIN initialData /\ Truthy(initialData[key]) THEN initialData[key] ELSE dflt

\* new TemplateSettings(initialData)
TemplateSettings(initialData) ==
    [ target |-> OrDefault(initialData, "Target", Str(<<"Model">>)),
      targetItem |-> OrDefault(initialData, "TargetItem", Str(<<"item">>)),
      targetProperty |-> OrDefault(initialData, "TargetProperty", Str(<<"target">>)),
      modelProperty |-> OrDefault(initialData, "ModelProperty", Str(<<"model">>)),
      targetItemNameProperty |->
          OrDefault(initialData, "TargetItemNameProperty", Str(<<"Name">>)),
      exportPath |-> OrDefault(initialData, "ExportPath", Null),
      prepareExportPathUsingTemplate |->
          OrDefault(initialData, "PrepareExportPathUsingTemplate", Bool(TRUE)),
      prepareExportPathUsingReplace |->
          OrDefault(initialData, "PrepareExportPathUsingReplace", Bool(FALSE)),
      appendToExisting |-> OrDefault(initialData, "AppendToExisting", Bool(FALSE)),
      fileNamePattern |-> OrDefault(initialData, "FileNamePattern", Null),
      splitOn |-> OrDefault(initialData, "SplitOn", Null),
      removeFileName |-> OrDefault(initialData, "RemoveFileName", Bool(FALSE)),
      generateIf |-> OrDefault(initialData, "GenerateIf", Null),
      skipIf |-> OrDefault(initialData, "SkipIf", Null),
      enabled |-> ~("Enabled" \in DOMAIN initialData /\ initialData["Enabled"] = Bool(FALSE)) ]

-----------------------------------------------------------------------------
(* Handlebars: compile and render.  A compiled template is                 *)
(* [ok |-> FALSE] (the source does not parse: compilation is lazy and the  *)
(* error is thrown by every render) or [ok |-> TRUE, parts |-> <<...>>],   *)
(* a part being text, a mustache {{a.b}} or a dynamic partial              *)
(* {{> (lookup a "b")}}.                                                   *)

Text(s) == [k |-> "text", s |-> s]
Mustache(path) == [k |-> "mustache", path |-> path]
Partial(path) == [k |-> "partial", path |-> path]

SyntaxError == [ok |-> FALSE]

\* The partials registered with Handlebars, with their (static) bodies.
Partials == [n \in {<<"A">>} |-> <<"T">>]

\* The path expression between {{ and }}: word atoms separated by ".".
IsPathExpression(inner) ==
    /\ inner # <<>>
    /\ \A seg \in {Split(inner, <<".">>)[i] : i \in 1..Len(Split(inner, <<".">>))} :
          Len(seg) = 1 /\ seg[1] \notin {"{", "}"} \cup WhiteSpace

\* The dynamic partial between {{ and }}: > (lookup a 'b').
IsDynamicPartial(inner) ==
    /\ Len(inner) = 11
    /\ SubSeq(inner, 1, 5) = <<">", " ", "(", "lookup", " ">>
    /\ SubSeq(inner, 7, 8) = <<" ", "'">>
    /\ SubSeq(inner, 10, 11) = <<"'", ")">>
    /\ IsPathExpression(<<inner[6]>>) /\ IsPathExpression(<<inner[9]>>)

\* Handlebars.compile(source) for a source string of text, mustaches and
\* dynamic partials.
RECURSIVE Compile(_)
Compile(source) ==
    LET open == IndexOf(source, <<"{", "{">>)
    IN  IF open = 0
        THEN [ok |-> TRUE, parts |-> IF source = <<>> THEN <<>> ELSE <<Text(source)>>]
        ELSE
          LET rest == SubSeq(source, open + 2, Len(source))
              close == IndexOf(rest, <<"}", "}">>)
              inner == Trim(SubSeq(rest, 1, close - 1))
              tail == Compile(SubSeq(rest, close + 2, Len(rest)))
              lead == IF open = 1 THEN <<>> ELSE <<Text(SubSeq(source, 1, open - 1))>>
          IN  IF close = 0 \/ ~tail.ok THEN SyntaxError
              ELSE IF IsDynamicPartial(inner)
              THEN [ok |-> TRUE,
                    parts |-> lead \o <<Partial(<< <<inner[6]>>, <<inner[9]>> >>)>>
                                \o tail.parts]
              ELSE IF IsPathExpression(inner)
              THEN [ok |-> TRUE,
                    parts |-> lead \o <<Mustache(Split(inner, <<".">>))>> \o tail.parts]
              ELSE SyntaxError

\* The output of {{expr}}: nothing for null and undefined, else the string
\* of the value (no character of the model's alphabet is HTML-escaped).
EscapeExpression(v) == IF IsNullish(v) THEN <<>> ELSE ToStr(v)

\* compiled(context): [threw |-> TRUE] or [threw |-> FALSE, s |-> output].
RECURSIVE RenderParts(_, _)
RenderParts(parts, context) ==
    IF parts = <<>> THEN [threw |-> FALSE, s |-> <<>>]
    ELSE
      LET part == Head(parts)
          v == IF part.k = "text" THEN Undefined ELSE WalkPath(context, part.path)
          rest == RenderParts(Tail(parts), context)
      IN  CASE part.k = "text" ->
                  IF rest.threw THEN rest ELSE [threw |-> FALSE, s |-> part.s \o rest.s]
            [] part.k = "mustache" ->
                  IF rest.threw THEN rest
                  ELSE [threw |-> FALSE, s |-> EscapeExpression(v) \o rest.s]
            [] part.k = "partial" ->
                  IF ToStr(v) \notin DOMAIN Partials THEN [threw |-> TRUE]
                  ELSE IF rest.threw THEN rest
                  ELSE [threw |-> FALSE, s |-> Partials[ToStr(v)] \o rest.s]

Render(compiled, context) ==
    IF ~compiled.ok THEN [threw |-> TRUE] ELSE RenderParts(compiled.parts, context)

-----------------------------------------------------------------------------
(* lib/Helpers.js *)

\* Helpers.isEmpty(value)
isEmpty(value) ==
    \/ ~Truthy(value)
    \/ (value.t = "str" /\ value.s = <<>>)
    \/ (value.t = "arr" /\ value.e = <<>>)

-----------------------------------------------------------------------------
(* lib/Template.js: export path *)

\* obj.key = value on a value: an object gets the property, a primitive is
\* left as it is (the assignment is silently dropped).
SetProp(obj, key, value) ==
    IF obj.t = "obj" THEN Obj((key :> value) @@ obj.f) ELSE obj

\* Mutant of prepareExportPath: with both strategies and a file name, the
\* export path is rendered first and {FileName} replaced in what it renders.
prepareExportPathTemplateFirst(s, fileName, model) ==
    LET itemModelProperty == IF Truthy(s.targetItem) THEN s.targetItem.s ELSE <<"item">>
        targetItemNameProperty ==
            IF Truthy(s.targetItemNameProperty) THEN s.targetItemNameProperty.s ELSE <<"Name">>
        nameReplacement ==
            <<"{">> \o itemModelProperty \o <<".">> \o targetItemNameProperty \o <<"}">>
        hasFileName == Truthy(fileName) /\ ~isEmpty(fileName)
        modelName == IF Truthy(model) THEN GetProp(model, targetItemNameProperty) ELSE Undefined
        hasModelName == Truthy(model) /\ Truthy(modelName) /\ ~isEmpty(modelName)
        useReplace == Truthy(s.prepareExportPathUsingReplace)
        useTemplate == Truthy(s.prepareExportPathUsingTemplate)
        \* null.replace(...) is a TypeError
        replaceThrows == useReplace /\ (hasFileName \/ hasModelName) /\ s.exportPath.t # "str"
        afterFileName ==
            IF useReplace /\ hasFileName /\ s.exportPath.t = "str"
            THEN Str(ReplaceFirst(s.exportPath.s, <<"{", "FileName", "}">>, fileName.s))
            ELSE s.exportPath
        afterName ==
            IF useReplace /\ hasModelName /\ afterFileName.t = "str"
            THEN Str(ReplaceFirst(afterFileName.s, nameReplacement, ToStr(modelName)))
            ELSE afterFileName
        templateModel == IF Truthy(model) THEN model ELSE Obj(<<>>)
        \* Handlebars.compile(null) throws
        compileThrows == useTemplate /\ afterName.t # "str"
        injected == IF hasFileName THEN SetProp(templateModel, "FileName", fileName)
                    ELSE templateModel
        first == Render(Compile(afterName.s), injected)
        rendered ==
            IF first.threw \/ ~useReplace \/ ~hasFileName THEN first
            ELSE [threw |-> FALSE,
                  s |-> ReplaceFirst(Render(Compile(s.exportPath.s), injected).s,
                                     <<"{", "FileName", "}">>, fileName.s)]
    IN  IF replaceThrows THEN [threw |-> TRUE, path |-> Undefined, model |-> model]
        ELSE IF ~useTemplate THEN [threw |-> FALSE, path |-> afterName, model |-> model]
        ELSE IF compileThrows THEN [threw |-> TRUE, path |-> Undefined, model |-> model]
        ELSE [threw |-> rendered.threw,
              path |-> IF rendered.threw THEN Undefined ELSE Str(rendered.s),
              model |-> IF Truthy(model) /\ hasFileName THEN injected ELSE model]

\* Template.prepareExportPath(settings, fileName, model).  Returns
\* [threw, path, model]: the path value and the model argument as the call
\* leaves it (the template strategy writes FileName onto it).
prepareExportPath(s, fileName, model) ==
    LET itemModelProperty == IF Truthy(s.targetItem) THEN s.targetItem.s ELSE <<"item">>
        targetItemNameProperty ==
            IF Truthy(s.targetItemNameProperty) THEN s.targetItemNameProperty.s ELSE <<"Name">>
        nameReplacement ==
            <<"{">> \o itemModelProperty \o <<".">> \o targetItemNameProperty \o <<"}">>
        hasFileName == Truthy(fileName) /\ ~isEmpty(fileName)
        modelName == IF Truthy(model) THEN GetProp(model, targetItemNameProperty) ELSE Undefined
        hasModelName == Truthy(model) /\ Truthy(modelName) /\ ~isEmpty(modelName)
        useReplace == Truthy(s.prepareExportPathUsingReplace)
        useTemplate == Truthy(s.prepareExportPathUsingTemplate)
        \* null.replace(...) is a TypeError
        replaceThrows == useReplace /\ (hasFileName \/ hasModelName) /\ s.exportPath.t # "str"
        afterFileName ==
            IF useReplace /\ hasFileName /\ s.exportPath.t = "str"
            THEN Str(ReplaceFirst(s.exportPath.s, <<"{", "FileName", "}">>, fileName.s))
            ELSE s.exportPath
        afterName ==
            IF useReplace /\ hasModelName /\ afterFileName.t = "str"
            THEN Str(ReplaceFirst(afterFileName.s, nameReplacement, ToStr(modelName)))
            ELSE afterFileName
        templateModel == IF Truthy(model) THEN model ELSE Obj(<<>>)
        \* Handlebars.compile(null) throws
        compileThrows == useTemplate /\ afterName.t # "str"
        injected == IF hasFileName THEN SetProp(templateModel, "FileName", fileName)
                    ELSE templateModel
        rendered == Render(Compile(afterName.s), injected)
    IN  IF replaceThrows THEN [threw |-> TRUE, path |-> Undefined, model |-> model]
        ELSE IF ~useTemplate THEN [threw |-> FALSE, path |-> afterName, model |-> model]
        ELSE IF compileThrows THEN [threw |-> TRUE, path |-> Undefined, model |-> model]
        ELSE [threw |-> rendered.threw,
              path |-> IF rendered.threw THEN Undefined ELSE Str(rendered.s),
              model |-> IF Truthy(model) /\ hasFileName THEN injected ELSE model]

-----------------------------------------------------------------------------
(* lib/Template.js: generate.                                              *)
(*                                                                         *)
(* A call is threaded through a record st:                                 *)
(*   result, errors, skippedItems, isGenerated : the template's fields     *)
(*   root    : the caller's model object (as the call leaves it)           *)
(*   pm      : the object currently passed as model to path resolution     *)
(*   log     : the hook calls, condition checks, renders and pushes made   *)
(*   model, target : the model after prepareModel and the target after     *)
(*             prepareTarget, once the call has them (Unset before)        *)
(*   outcome : "running", "returned" or "threw"                            *)
(*   ret     : the value returned (undefined, or a skip signal)            *)
(* C bundles what a call reads: settings, script, template, name, env.     *)

Unset == [t |-> "unset"]

\* Statement sequencing: the value v of a statement is computed once, and the
\* statements after it continue from that value.
Then(v, Continue(_)) == CHOOSE r \in {Continue(x) : x \in {v}} : TRUE

Event(ev, i) == [ev |-> ev, i |-> i]

EventRec(ev, i, rec) == [ev |-> ev, i |-> i, rec |-> rec]

Logged(st, ev, i) == [st EXCEPT !.log = Append(@, Event(ev, i))]

\* console.warn(...) for each expression of a sequence, at item i.
RECURSIVE LoggedWarnings(_, _, _)
LoggedWarnings(st, expressions, i) ==
    IF expressions = <<>> THEN st
    ELSE LoggedWarnings([st EXCEPT !.log = Append(@, EventRec("warn", i, Head(expressions)))],
                        Tail(expressions), i)

Throw(st, message) == [st EXCEPT !.outcome = "threw", !.message = message]

\* new TemplateResult(filePath, content, appendToExisting)
TemplateResult(filePath, content, appendToExisting) ==
    [filePath |-> filePath, content |-> content, appendToExisting |-> appendToExisting]

\* this._result.push(new TemplateResult(...)); path.dirname in the
\* constructor throws for a path that is not a string.
PushResult(st, i, filePath, content, appendToExisting) ==
    IF filePath.t # "str" THEN Throw(st, "TypeError: path must be a string")
    ELSE LET rec == TemplateResult(filePath.s, content, Truthy(appendToExisting))
         IN  [st EXCEPT !.result = Append(@, rec),
                        !.log = Append(@, EventRec("push", i, rec))]

\* Atoms matched by \w+.
WordAtoms == {"A", "B", "M", "T", "item", "0", "1", "2", "3", "4", "5", "6", "7", "8", "9"}

\* The capture groups a pattern may end with.
GroupAtoms == {"(?<FileName>\\w+)", "(?<FileName>\\w*)", "(\\w+)"}

\* The maximal run of word atoms at the head of s.
RECURSIVE WordRun(_)
WordRun(s) ==
    IF s # <<>> /\ Head(s) \in WordAtoms THEN <<Head(s)>> \o WordRun(Tail(s)) ELSE <<>>

\* new RegExp(pattern).exec(s) for a pattern made of literal atoms followed by
\* at most one capture group: [threw], or [threw, matched, whole, named, group].
RegexExec(pattern, s) ==
    LET hasGroup == pattern # <<>> /\ pattern[Len(pattern)] \in GroupAtoms
        group == IF hasGroup THEN pattern[Len(pattern)] ELSE ""
        lit == IF hasGroup THEN SubSeq(pattern, 1, Len(pattern) - 1) ELSE pattern
        needOne == group \in {"(?<FileName>\\w+)", "(\\w+)"}
        MatchAt(i) ==
            /\ SubSeq(s, i, i + Len(lit) - 1) = lit
            /\ (needOne => WordRun(SubSeq(s, i + Len(lit), Len(s))) # <<>>)
        starts == {i \in 1..(Len(s) - Len(lit) + 1) : MatchAt(i)}
        at == CHOOSE i \in starts : \A j \in starts : i <= j
        run == IF hasGroup THEN WordRun(SubSeq(s, at + Len(lit), Len(s))) ELSE <<>>
    IN  IF \E i \in 1..Len(lit) : lit[i] \in RegexInvalid THEN [threw |-> TRUE]
        ELSE IF starts = {} THEN [threw |-> FALSE, matched |-> FALSE]
        ELSE [threw |-> FALSE, matched |-> TRUE, whole |-> lit \o run,
              named |-> group \in {"(?<FileName>\\w+)", "(?<FileName>\\w*)"},
              group |-> run]

\* this._errors.push(rec)
PushError(st, i, rec) ==
    [st EXCEPT !.errors = Append(@, rec), !.log = Append(@, EventRec("error", i, rec))]

\* Mutant of PushSkipped: the item is passed over without a record.
PushSkippedNoRecord(st, i, rec) == Logged(st, "skip", i)

\* this._skippedItems.push(rec)
PushSkipped(st, i, rec) ==
    [st EXCEPT !.skippedItems = Append(@, rec), !.log = Append(@, EventRec("skip", i, rec))]

\* Mutant of extractFileNameFromSection: a pattern that does not match falls
\* back to the default file name without a diagnostic.
extractFileNameSilently(C, st, i, section, defaultFileName) ==
    IF ~Truthy(C.settings.fileNamePattern)
    THEN [st |-> st, fileName |-> defaultFileName, section |-> Trim(section)]
    ELSE
      LET nameMatch == RegexExec(C.settings.fileNamePattern.s, section)
      IN  IF nameMatch.threw
          THEN [st |-> Throw(st, "SyntaxError: Invalid regular expression"),
                fileName |-> defaultFileName, section |-> section]
          ELSE IF nameMatch.matched /\ nameMatch.named /\ nameMatch.group # <<>>
          THEN [st |-> st,
                fileName |-> nameMatch.group,
                section |-> Trim(IF Truthy(C.settings.removeFileName)
                                 THEN ReplaceFirst(section, nameMatch.whole, <<>>)
                                 ELSE section)]
          ELSE [st |-> st, fileName |-> defaultFileName, section |-> Trim(section)]

\* Template._extractFileNameFromSection(section, defaultFileName), with the
\* state it pushes its diagnostic on: [st, fileName, section].
extractFileNameFromSection(C, st, i, section, defaultFileName) ==
    IF ~Truthy(C.settings.fileNamePattern)
    THEN [st |-> st, fileName |-> defaultFileName, section |-> Trim(section)]
    ELSE
      LET nameMatch == RegexExec(C.settings.fileNamePattern.s, section)
      IN  IF nameMatch.threw
          THEN [st |-> Throw(st, "SyntaxError: Invalid regular expression"),
                fileName |-> defaultFileName, section |-> section]
          ELSE IF nameMatch.matched /\ nameMatch.named /\ nameMatch.group # <<>>
          THEN [st |-> st,
                fileName |-> nameMatch.group,
                section |-> Trim(IF Truthy(C.settings.removeFileName)
                                 THEN ReplaceFirst(section, nameMatch.whole, <<>>)
                                 ELSE section)]
          ELSE [st |-> PushError(st, i,
                            [phase |-> "generate",
                             message |-> <<"FileNamePattern did not match in section",
                                           C.settings.fileNamePattern.s, defaultFileName>>]),
                fileName |-> defaultFileName,
                section |-> Trim(section)]

\* Mutant of ProcessSection: a section of white space is not passed over.
ProcessSectionKeepEmpty(C, st, i, sections, index, namePrefix) ==
    Then(extractFileNameFromSection(C, st, i, sections[index + 1],
                                    namePrefix \o <<"-">> \o ToStr(Num(index))),
         LAMBDA extracted :
           IF extracted.st.outcome = "threw" THEN extracted.st
           ELSE
             Then(prepareExportPath(C.settings, Str(extracted.fileName), extracted.st.pm),
                  LAMBDA resolved :
                    LET st2 == [Logged(extracted.st, "prepareExportPath", i)
                                  EXCEPT !.pm = resolved.model]
                    IN  IF resolved.threw THEN Throw(st2, "Error: export path")
                        ELSE PushResult(st2, i, resolved.path, extracted.section,
                                        C.settings.appendToExisting)))

\* One iteration of the loop of Template._processSplitContent, for the
\* section at (zero-based) index.
ProcessSection(C, st, i, sections, index, namePrefix) ==
    LET section == sections[index + 1]
        defaultFileName == namePrefix \o <<"-">> \o ToStr(Num(index))
    IN  IF Len(Trim(section)) <= 0 THEN st
        ELSE
          Then(extractFileNameFromSection(C, st, i, section, defaultFileName),
               LAMBDA extracted :
                 IF extracted.st.outcome = "threw" THEN extracted.st
                 ELSE
                   Then(prepareExportPath(C.settings, Str(extracted.fileName),
                                          extracted.st.pm),
                        LAMBDA resolved :
                          LET st2 == [Logged(extracted.st, "prepareExportPath", i)
                                        EXCEPT !.pm = resolved.model]
                          IN  IF resolved.threw THEN Throw(st2, "Error: export path")
                              ELSE PushResult(st2, i, resolved.path, extracted.section,
                                              C.settings.appendToExisting)))

RECURSIVE SplitLoop(_, _, _, _, _, _)
SplitLoop(C, st, i, sections, index, namePrefix) ==
    IF index >= Len(sections) \/ st.outcome # "running" THEN st
    ELSE Then(ProcessSection(C, st, i, sections, index, namePrefix),
              LAMBDA next : SplitLoop(C, next, i, sections, index + 1, namePrefix))

\* Template._processSplitContent(content, model, namePrefix); model is st.pm.
processSplitContent(C, st, i, content, namePrefix) ==
    Then(Split(content, C.settings.splitOn.s),
         LAMBDA sections : SplitLoop(C, st, i, sections, 0, namePrefix))

\* Template._getSkipReason()
getSkipReason(s) ==
    IF ~s.enabled THEN <<"Template is disabled">>
    ELSE IF Truthy(s.generateIf) THEN <<"GenerateIf condition not met: ">> \o s.generateIf.s
    ELSE IF Truthy(s.skipIf) THEN <<"SkipIf condition met: ">> \o s.skipIf.s
    ELSE <<"Unknown">>

SkipSignal(reason) == [skipped |-> TRUE, reason |-> reason]

-----------------------------------------------------------------------------
(* Script hooks.  A script is Null (no .hbs.js file) or a record of four   *)
(* hooks; a hook is a pure function of one of these kinds:                 *)
(*   "absent"   the module does not export it                              *)
(*   "identity" returns its argument                                       *)
(*   "null"     returns null                                               *)
(*   "copy"     returns a deep copy of its argument, with Prepared: true   *)
(*              added when the argument is an object                       *)
(*   "nullOn"   returns null when the value at h.path equals the string    *)
(*              h.on, and its argument otherwise                           *)

Hook(kind) == [kind |-> kind, path |-> <<>>, on |-> <<>>]
NullOn(path, on) == [kind |-> "nullOn", path |-> path, on |-> on]

\* this._script && this._script[hookName]
HasHook(scr, hookName) == scr # Null /\ scr[hookName].kind # "absent"

Copy(v) == IF v.t = "obj" THEN SetProp(v, "Prepared", Bool(TRUE)) ELSE v

\* The value the hook returns for v.
ApplyHook(h, v) ==
    CASE h.kind = "identity" -> v
      [] h.kind = "null" -> Null
      [] h.kind = "copy" -> Copy(v)
      [] h.kind = "nullOn" -> IF WalkPath(v, h.path) = Str(h.on) THEN Null ELSE v

\* A reference to an object of the call: its value and where it lives,
\* "#root" (the caller's model object), a key (the property of the caller's
\* model object with that name) or "#fresh" (an object created by the call).
Ref(v, loc) == [v |-> v, loc |-> loc]

ApplyHookRef(h, ref) ==
    Ref(ApplyHook(h, ref.v), IF h.kind = "copy" THEN "#fresh" ELSE ref.loc)

\* ref.v[key]
Child(ref, key) ==
    Ref(GetProp(ref.v, key), IF ref.loc = "#root" /\ Len(key) = 1 THEN key[1] ELSE "#fresh")

\* The caller's model object once the object at loc has become v.
WriteBack(root, loc, v) ==
    CASE loc = "#root" -> v
      [] loc = "#fresh" -> root
      [] OTHER -> SetProp(root, loc, v)

\* The property name a settings string denotes.
KeyOf(nameValue, dflt) == IF Truthy(nameValue) THEN nameValue.s[1] ELSE dflt

-----------------------------------------------------------------------------

\* Mutant of ResetState: only the result list is emptied.
ResetStateResultOnly(st) == [st EXCEPT !.result = <<>>]

\* Lines 207-209 of generate: the three lists are emptied.
ResetState(st) == [st EXCEPT !.result = <<>>, !.errors = <<>>, !.skippedItems = <<>>]

\* Lines 272-294 of generate: prepareItem, the item model, prepareItemModel,
\* for the item at index i (from 1): [st, processedItem, processedItemModel].
ItemHooks(C, st, target, model, i) ==
    LET s == C.settings
        targetProperty == KeyOf(s.targetProperty, "target")
        modelProperty == KeyOf(s.modelProperty, "model")
        itemModelProperty == KeyOf(s.targetItem, "item")
        item == target.e[i]
        hasPI == HasHook(C.script, "prepareItem")
        st1 == IF hasPI THEN Logged(st, "prepareItem", i) ELSE st
        processedItem == IF hasPI THEN ApplyHook(C.script.prepareItem, item) ELSE item
        itemModel == Obj((itemModelProperty :> processedItem)
                         @@ (modelProperty :> model) @@ (targetProperty :> target))
        hasPIM == HasHook(C.script, "prepareItemModel")
        st2 == IF hasPIM THEN Logged(st1, "prepareItemModel", i) ELSE st1
        processedItemModel ==
            IF hasPIM THEN ApplyHook(C.script.prepareItemModel, itemModel) ELSE itemModel
    IN  IF hasPI /\ processedItem = Null
        THEN [st |-> Throw(st1, "Prepare Item script did not return a valid item."),
              processedItem |-> Null, processedItemModel |-> Null]
        ELSE IF hasPIM /\ processedItemModel = Null
        THEN [st |-> Throw(st2, "Prepare Item Model script did not return a valid item model."),
              processedItem |-> processedItem, processedItemModel |-> Null]
        ELSE [st |-> st2, processedItem |-> processedItem,
              processedItemModel |-> processedItemModel]

\* Lines 296-318 of generate: the condition gate, the render and the
\* result(s) of the item at index i.
ItemOutput(C, st, processedItem, processedItemModel, model, i) ==
    LET s == C.settings
        context == Obj(processedItemModel.f @@ ("Model" :> model))
        st3 == LoggedWarnings(Logged(st, "shouldGenerate", i),
                              shouldGenerateWarnings(s, C.env, context), i)
        st4 == Logged(st3, "render", i)
        st5 == Logged(st4, "prepareExportPath", i)
        itemName == GetProp(processedItem, <<"Name">>)
        namePrefix == ToStr(C.name) \o <<"-">>
                        \o (IF Truthy(itemName) THEN ToStr(itemName) ELSE <<"item">>)
    IN  IF ~shouldGenerate(s, C.env, context)
        THEN PushSkipped(st3, i, [item |-> processedItem, reason |-> getSkipReason(s)])
        ELSE
          Then(Render(C.template, processedItemModel),
               LAMBDA content :
                 IF content.threw THEN Throw(st4, "Error: render")
                 ELSE IF ~Truthy(s.splitOn)
                 THEN Then(prepareExportPath(s, Null, processedItemModel),
                           LAMBDA resolved :
                             IF resolved.threw THEN Throw(st5, "Error: export path")
                             ELSE PushResult(st5, i, resolved.path, content.s,
                                             s.appendToExisting))
                 ELSE IF IsNullish(processedItem)
                 THEN Throw(st4, "TypeError: cannot read properties of null")
                 ELSE processSplitContent(C, [st4 EXCEPT !.pm = processedItemModel], i,
                                          content.s, namePrefix))

\* Mutant of ProcessItem: the condition gate is evaluated first, on the item
\* as it is in the array, and a skipped item never reaches the item hooks.
ProcessItemGateFirst(C, st, target, model, i) ==
    Then(ItemHooks([C EXCEPT !.script = Null], st, target, model, i),
         LAMBDA raw :
           IF ~shouldGenerate(C.settings, C.env,
                              Obj(raw.processedItemModel.f @@ ("Model" :> model)))
           THEN ItemOutput(C, st, raw.processedItem, raw.processedItemModel, model, i)
           ELSE Then(ItemHooks(C, st, target, model, i),
                     LAMBDA hooks :
                       IF hooks.st.outcome = "threw" THEN hooks.st
                       ELSE ItemOutput(C, hooks.st, hooks.processedItem,
                                       hooks.processedItemModel, model, i)))

\* The body of the for loop of generate, for the item at index i (from 1).
ProcessItem(C, st, target, model, i) ==
    Then(ItemHooks(C, st, target, model, i),
         LAMBDA hooks :
           IF hooks.st.outcome = "threw" THEN hooks.st
           ELSE ItemOutput(C, hooks.st, hooks.processedItem, hooks.processedItemModel,
                           model, i))

\* Mutant of ItemLoop: the loop stops one element short.
RECURSIVE ItemLoopOffByOne(_, _, _, _, _)
ItemLoopOffByOne(C, st, target, model, i) ==
    IF i >= Len(target.e) \/ st.outcome # "running" THEN st
    ELSE Then(ProcessItem(C, st, target, model, i),
              LAMBDA next : ItemLoopOffByOne(C, next, target, model, i + 1))

\* Mutant of ItemLoop: a failed item does not end the loop.
RECURSIVE ItemLoopNoAbort(_, _, _, _, _)
ItemLoopNoAbort(C, st, target, model, i) ==
    IF i > Len(target.e) THEN st
    ELSE Then(ProcessItem(C, st, target, model, i),
              LAMBDA next : ItemLoopNoAbort(C, next, target, model, i + 1))

\* Mutant of ItemLoop: the elements are taken from the last to the first.
RECURSIVE ItemLoopBackwards(_, _, _, _, _)
ItemLoopBackwards(C, st, target, model, i) ==
    IF i > Len(target.e) \/ st.outcome # "running" THEN st
    ELSE Then(ProcessItem(C, st, target, model, Len(target.e) + 1 - i),
              LAMBDA next : ItemLoopBackwards(C, next, target, model, i + 1))

\* The for-of loop of generate over the target array, from the element at
\* index i (from 1) on; a throw ends it.
RECURSIVE ItemLoop(_, _, _, _, _)
ItemLoop(C, st, target, model, i) ==
    IF i > Len(target.e) \/ st.outcome # "running" THEN st
    ELSE Then(ProcessItem(C, st, target, model, i),
              LAMBDA next : ItemLoop(C, next, target, model, i + 1))

\* this._isGenerated = true at the end of a branch of generate, which a
\* throw before it does not reach.
Finished(st) ==
    Then(st, LAMBDA done : IF done.outcome = "threw" THEN done
                           ELSE [done EXCEPT !.isGenerated = TRUE, !.outcome = "returned"])

\* Mutant of GenerateSingle: the target is treated as an array of one element.
GenerateSingleAsItem(C, st, target, model) ==
    Finished(ItemLoop(C, st, Arr(<<target.v>>), model.v, 1))

\* Lines 247-269 of generate: the target is not an array.
GenerateSingle(C, st, target, model) ==
    LET s == C.settings
        targetProperty == KeyOf(s.targetProperty, "target")
        modelProperty == KeyOf(s.modelProperty, "model")
        context == Obj((targetProperty :> target.v) @@ (modelProperty :> model.v)
                       @@ ("Model" :> model.v))
        st1 == LoggedWarnings(Logged(st, "shouldGenerate", 0),
                              shouldGenerateWarnings(s, C.env, context), 0)
        st2 == Logged(st1, "render", 0)
        st3 == Logged(st2, "prepareExportPath", 0)
    IN  IF ~shouldGenerate(s, C.env, context)
        THEN [st1 EXCEPT !.isGenerated = FALSE, !.outcome = "returned",
                         !.ret = SkipSignal(getSkipReason(s))]
        ELSE
          Then(Render(C.template, target.v),
               LAMBDA content :
                 IF content.threw THEN Throw(st2, "Error: render")
                 ELSE IF ~Truthy(s.splitOn)
                 THEN Then(prepareExportPath(s, Null, target.v),
                           LAMBDA resolved :
                             IF resolved.threw THEN Throw(st3, "Error: export path")
                             ELSE Finished(PushResult(st3, 0, resolved.path, content.s,
                                                      s.appendToExisting)))
                 ELSE Then(processSplitContent(C, [st2 EXCEPT !.pm = target.v], 0,
                                               content.s, ToStr(C.name)),
                           LAMBDA split :
                             Finished([split EXCEPT
                                         !.root = WriteBack(@, target.loc, split.pm)])))

\* Lines 234-322 of generate: target resolution, prepareTarget, and the
\* branch on Array.isArray(target).
GenerateTarget(C, st, model) ==
    LET s == C.settings
        selected == IF ~isEmpty(s.target) /\ s.target # Str(<<"Model">>)
                    THEN Child(model, s.target.s)
                    ELSE model
        st0 == Logged(st, "resolveTarget", 0)
        hasPT == HasHook(C.script, "prepareTarget")
        stH == IF hasPT THEN Logged(st0, "prepareTarget", 0) ELSE st0
        target == IF hasPT THEN ApplyHookRef(C.script.prepareTarget, selected) ELSE selected
        st1 == [stH EXCEPT !.target = target.v]
    IN  IF hasPT /\ target.v = Null
        THEN Throw(stH, "Prepare Target script did not return a valid target.")
        ELSE IF target.v.t # "arr" THEN GenerateSingle(C, st1, target, model)
        ELSE Finished(ItemLoop(C, st1, target.v, model.v, 1))

\* Lines 223-232 of generate: prepareModel.
GenerateModel(C, st) ==
    LET hasPM == HasHook(C.script, "prepareModel")
        st1 == IF hasPM THEN Logged(st, "prepareModel", 0) ELSE st
        model == IF hasPM THEN ApplyHookRef(C.script.prepareModel, Ref(st.root, "#root"))
                 ELSE Ref(st.root, "#root")
    IN  IF hasPM /\ model.v = Null
        THEN Throw(st1, "Prepare Model script did not return a valid model.")
        ELSE GenerateTarget(C, [st1 EXCEPT !.model = model.v], model)

\* Mutant of generate: a template that is not loaded returns quietly.
generateSilentWhenNotLoaded(C, st) ==
    LET st1 == ResetState(st)
    IN  IF ~C.isLoaded THEN [st1 EXCEPT !.outcome = "returned"]
        ELSE IF ~C.settings.enabled
        THEN [st1 EXCEPT !.isGenerated = FALSE, !.outcome = "returned",
                         !.ret = SkipSignal(<<"Template is disabled">>)]
        ELSE GenerateModel(C, st1)

\* Mutant of generate: the enabled switch is left to the per-item gate.
generateIgnoringEnabled(C, st) ==
    LET st1 == ResetState(st)
    IN  IF ~C.isLoaded THEN Throw(st1, "Template is not loaded.")
        ELSE GenerateModel(C, st1)

\* Template.generate(model): st holds the template's fields before the call
\* and the model object passed in.
generate(C, st) ==
    LET st1 == ResetState(st)
    IN  IF ~C.isLoaded THEN Throw(st1, "Template is not loaded.")
        ELSE IF ~C.settings.enabled
        THEN [st1 EXCEPT !.isGenerated = FALSE, !.outcome = "returned",
                         !.ret = SkipSignal(<<"Template is disabled">>)]
        ELSE GenerateModel(C, st1)

-----------------------------------------------------------------------------
(* The file system, and the writers of lib/TemplateResult.js with the      *)
(* helpers of lib/FileHelper.js they call.                                 *)
(*                                                                         *)
(* A file path is a string; an atom of DirAtoms ends a segment of it (it   *)
(* stands for a directory name and the separator after it).  A disk maps   *)
(* the paths that exist, as sequences of segment names, to their node: Dir *)
(* or File(content).  The root <<>> (".") always exists.                   *)

Dir == [k |-> "dir"]
File(content) == [k |-> "file", c |-> content]

\* A disk with nothing but its root.
NoFiles == [p \in {} |-> Dir]

DirAtoms == {"out/", "sub/"}
DirName(atom) == IF atom = "out/" THEN "out" ELSE "sub"

\* The segments of a path; open holds the atoms of the segment being read.
RECURSIVE PathSegments(_, _)
PathSegments(path, open) ==
    IF path = <<>> THEN (IF open = <<>> THEN <<>> ELSE <<open>>)
    ELSE IF Head(path) \in DirAtoms
    THEN <<open \o <<DirName(Head(path))>>>> \o PathSegments(Tail(path), <<>>)
    ELSE PathSegments(Tail(path), open \o <<Head(path)>>)

\* path.dirname(p), on segments; the root is its own parent.
dirname(p) == SubSeq(p, 1, Len(p) - 1)

\* fs.existsSync(p), and fsPromises.access(p) not rejecting.
existsSync(d, p) == p = <<>> \/ p \in DOMAIN d

IsDirectory(d, p) == p = <<>> \/ (p \in DOMAIN d /\ d[p].k = "dir")

\* The outcome of a file system call: the disk it leaves, and whether it
\* threw (or rejected).
Done(d) == [threw |-> FALSE, disk |-> d]
Failed(d) == [threw |-> TRUE, disk |-> d]

\* fs.mkdirSync(p): ENOENT or ENOTDIR unless the parent is a directory,
\* EEXIST when p exists.
mkdirSync(d, p) ==
    IF IsDirectory(d, dirname(p)) /\ ~existsSync(d, p) THEN Done((p :> Dir) @@ d)
    ELSE Failed(d)

\* fsPromises.mkdir(p, {recursive: true}): creates the missing ancestors;
\* rejects when p or an ancestor is a file.
RECURSIVE mkdirRecursive(_, _)
mkdirRecursive(d, p) ==
    IF IsDirectory(d, p) THEN Done(d)
    ELSE IF existsSync(d, p) THEN Failed(d)
    ELSE LET up == mkdirRecursive(d, dirname(p))
         IN  IF up.threw THEN up ELSE Done((p :> Dir) @@ up.disk)

\* fs.writeFileSync(p, content) and fsPromises.writeFile: create or
\* truncate; ENOENT or ENOTDIR unless the parent is a directory, EISDIR when
\* p is one.
writeFileSync(d, p, content) ==
    IF p # <<>> /\ IsDirectory(d, dirname(p)) /\ ~IsDirectory(d, p)
    THEN Done((p :> File(content)) @@ d)
    ELSE Failed(d)

\* fs.appendFileSync(p, content) and fsPromises.appendFile: create, or add
\* at the end.
appendFileSync(d, p, content) ==
    IF p # <<>> /\ IsDirectory(d, dirname(p)) /\ ~IsDirectory(d, p)
    THEN Done((p :> File((IF p \in DOMAIN d THEN d[p].c ELSE <<>>) \o content)) @@ d)
    ELSE Failed(d)

\* FileHelper.ensureDirectoryExists(directory)
RECURSIVE ensureDirectoryExists(_, _)
ensureDirectoryExists(d, directory) ==
    IF existsSync(d, directory) THEN Done(d)
    ELSE LET up == ensureDirectoryExists(d, dirname(directory))
         IN  IF up.threw THEN up ELSE mkdirSync(up.disk, directory)

\* FileHelper.ensureDirectoryExistsAsync(directory)
ensureDirectoryExistsAsync(d, directory) ==
    IF existsSync(d, directory) THEN Done(d) ELSE mkdirRecursive(d, directory)

\* FileHelper.exists(filePath)
exists(d, p) == existsSync(d, p)

\* Mutant of write: the file is always truncated.
writeTruncating(d, r) ==
    LET p == PathSegments(r.filePath, <<>>)
        ensured == ensureDirectoryExists(d, dirname(p))
    IN  IF ensured.threw THEN ensured
        ELSE writeFileSync(ensured.disk, p, r.content)

\* TemplateResult.write() of the result r, on the disk d.
write(d, r) ==
    LET p == PathSegments(r.filePath, <<>>)
        ensured == ensureDirectoryExists(d, dirname(p))
    IN  IF ensured.threw THEN ensured
        ELSE IF r.appendToExisting /\ existsSync(ensured.disk, p)
        THEN appendFileSync(ensured.disk, p, r.content)
        ELSE writeFileSync(ensured.disk, p, r.content)

\* TemplateResult.writeAsync() of the result r, run to its end with nothing
\* else touching the disk.
writeAsync(d, r) ==
    LET p == PathSegments(r.filePath, <<>>)
        ensured == ensureDirectoryExistsAsync(d, dirname(p))
    IN  IF ensured.threw THEN ensured
        ELSE IF r.appendToExisting /\ exists(ensured.disk, p)
        THEN appendFileSync(ensured.disk, p, r.content)
        ELSE writeFileSync(ensured.disk, p, r.content)

-----------------------------------------------------------------------------
(* lib/TemplateLoader.js: generate and generateAsync.                      *)
(*                                                                         *)
(* A loader is a record:                                                   *)
(*   templates : its loaded templates, each [C, f] with C what generate    *)
(*               reads and f the template's fields                         *)
(*   errors    : TemplateLoader._errors                                    *)
(*   async, continueOnError, write : the call made and its options         *)
(*   model     : the model passed to the call                              *)
(*   k, j      : the template the loop is at, and the next of its results  *)
(*               to write (0: the template is still to be generated)       *)
(*   phase     : "ready", "running", "returned" or "threw"                 *)
(*   trace     : the generate calls, renders and writes made, in order     *)
(* A step of the loop is threaded through a record [loader, disk].         *)

\* A loader that has not been asked anything.
NoLoader == [phase |-> "idle"]

\* What happened, to which template (n: the item rendered or the result
\* written).
Traced(ev, tpl, n, threw) == [ev |-> ev, template |-> tpl, n |-> n, threw |-> threw]

\* The renders of a generate call, as the loader's trace has them.
RECURSIVE Renders(_, _)
Renders(log, tpl) ==
    IF log = <<>> THEN <<>>
    ELSE (IF Head(log).ev = "render"
          THEN <<Traced("render", tpl, Head(log).i, FALSE)>> ELSE <<>>)
         \o Renders(Tail(log), tpl)

\* Mutant of TemplateAt: the templates are taken last first.
TemplateAtFromEnd(L, k) == L.templates[Len(L.templates) + 1 - k]

\* The template the k-th round of the loop is about.
TemplateAt(L, k) == L.templates[k]

\* The loop goes on to its next template, or ends.
NextTemplate(L) ==
    IF L.k >= Len(L.templates) THEN [L EXCEPT !.k = @ + 1, !.j = 0, !.phase = "returned"]
    ELSE [L EXCEPT !.k = @ + 1, !.j = 0, !.phase = "running"]

\* Mutant of Caught: a template that fails leaves no record.
CaughtSilently(L, tpl, message) ==
    IF ~L.continueOnError THEN [L EXCEPT !.phase = "threw"] ELSE NextTemplate(L)

\* The catch block: the error is recorded with the template's name, and
\* thrown again unless continueOnError.
Caught(L, tpl, message) ==
    Then([L EXCEPT !.errors = Append(@, [phase |-> "generate", template |-> tpl.C.name,
                                         message |-> message])],
         LAMBDA recorded :
           IF ~L.continueOnError THEN [recorded EXCEPT !.phase = "threw"]
           ELSE NextTemplate(recorded))

\* template.generate(model) in the try block, for the template the loop is
\* at.
GenerateTemplate(S) ==
    Then(TemplateAt(S.loader, S.loader.k),
         LAMBDA tpl :
           Then(generate(tpl.C,
                         [result |-> tpl.f.result, errors |-> tpl.f.errors,
                          skippedItems |-> tpl.f.skippedItems,
                          isGenerated |-> tpl.f.isGenerated,
                          root |-> S.loader.model, pm |-> Undefined, log |-> <<>>,
                          model |-> Unset, target |-> Unset,
                          outcome |-> "running", ret |-> Undefined, message |-> ""]),
                LAMBDA st :
                  Then([S.loader EXCEPT
                          !.templates = [n \in 1..Len(@) |->
                              IF @[n].C.name = tpl.C.name
                              THEN [@[n] EXCEPT !.f = [result |-> st.result, errors |-> st.errors,
                                                       skippedItems |-> st.skippedItems,
                                                       isGenerated |-> st.isGenerated]]
                              ELSE @[n]],
                          !.model = st.root,
                          !.phase = "running",
                          !.trace = @ \o <<Traced("generate", tpl.C.name, 0,
                                                  st.outcome = "threw")>>
                                      \o Renders(st.log, tpl.C.name)],
                       LAMBDA L :
                         [disk |-> S.disk,
                          loader |-> IF st.outcome = "threw" THEN Caught(L, tpl, st.message)
                                     ELSE IF L.write /\ st.result # <<>> THEN [L EXCEPT !.j = 1]
                                     ELSE NextTemplate(L)])))

\* One round of the loop of Template.write / Template.writeAsync, for the
\* result the loop is at.
WriteTemplateResult(S) ==
    Then(TemplateAt(S.loader, S.loader.k),
         LAMBDA tpl :
           Then(IF S.loader.async THEN writeAsync(S.disk, tpl.f.result[S.loader.j])
                ELSE write(S.disk, tpl.f.result[S.loader.j]),
                LAMBDA done :
                  Then([S.loader EXCEPT !.trace = Append(@, Traced("write", tpl.C.name,
                                                                   S.loader.j, done.threw))],
                       LAMBDA L :
                         [disk |-> done.disk,
                          loader |-> IF done.threw THEN Caught(L, tpl, "write failed")
                                     ELSE IF L.j < Len(tpl.f.result)
                                     THEN [L EXCEPT !.j = @ + 1]
                                     ELSE NextTemplate(L)])))

\* The next thing the loop does.
LoaderStep(S) == IF S.loader.j = 0 THEN GenerateTemplate(S) ELSE WriteTemplateResult(S)

\* The loop run to its end (generate), or to its next await (generateAsync).
RECURSIVE RunLoader(_)
RunLoader(S) ==
    IF S.loader.phase \in {"returned", "threw"} THEN S
    ELSE Then(LoaderStep(S),
              LAMBDA next : IF next.loader.async THEN next ELSE RunLoader(next))

-----------------------------------------------------------------------------
(* Bounds *)

\* Longest target array of a model.
MaxItems == 2

\* Number of generate calls made on a template.
MaxCalls == 2

\* Number of results written to a disk.
MaxWrites == 2

\* Number of templates of a loader.
MaxTemplates == 2

-----------------------------------------------------------------------------
(* The inputs: models, settings files, template bodies, scripts, env. *)

ItemA == Obj([Name |-> Str(<<"A">>)])
ItemB == Obj([Name |-> Str(<<"B">>)])

RECURSIVE SeqsUpTo(_, _)
SeqsUpTo(S, n) ==
    IF n = 0 THEN {<<>>}
    ELSE LET shorter == SeqsUpTo(S, n - 1)
         IN  shorter \cup {Append(q, x) : q \in {r \in shorter : Len(r) = n - 1}, x \in S}

\* The caller's model: {Name, Items: [...]}.
Models ==
    {Obj([Name |-> Str(<<"M">>), Items |-> Arr(items)]) :
        items \in SeqsUpTo({ItemA, ItemB}, MaxItems)}

\* {{item.Name}}{{FileName}}
BodyItemName ==
    Compile(<<"{", "{", "item", ".", "Name", "}", "}", "{", "{", "FileName", "}", "}">>)

\* {{FileName}}@{{item.Name}}{{Name}}| |B
BodySplit ==
    Compile(<<"{", "{", "FileName", "}", "}", "@", "{", "{", "item", ".", "Name", "}", "}",
              "{", "{", "Name", "}", "}", "|", " ", "|", "B">>)

\* {{> (lookup item 'Name')}}|{{item.Name}}
BodyPartial ==
    Compile(<<"{", "{", ">", " ", "(", "lookup", " ", "item", " ", "'", "Name", "'", ")",
              "}", "}", "|", "{", "{", "item", ".", "Name", "}", "}">>)

\* {{item.Name : a mustache that is never closed
BodyUnclosed == Compile(<<"{", "{", "item", ".", "Name">>)

\* Handlebars.compile(templateContent) for the .hbs files of the templates.
Bodies == {BodyItemName, BodySplit, BodyPartial, BodyUnclosed}

NoHooks == [prepareModel |-> Hook("absent"), prepareTarget |-> Hook("absent"),
            prepareItem |-> Hook("absent"), prepareItemModel |-> Hook("absent")]

Scripts ==
    { Null,
      [NoHooks EXCEPT !.prepareModel = Hook("identity"), !.prepareTarget = Hook("identity"),
                      !.prepareItem = Hook("copy"), !.prepareItemModel = Hook("identity")],
      [NoHooks EXCEPT !.prepareItem = NullOn(<< <<"Name">> >>, <<"B">>),
                      !.prepareItemModel = Hook("identity")],
      [NoHooks EXCEPT !.prepareItem = Hook("identity"),
                      !.prepareItemModel = NullOn(<< <<"item">>, <<"Name">> >>, <<"A">>)],
      [NoHooks EXCEPT !.prepareModel = Hook("copy"), !.prepareTarget = Hook("null")],
      [NoHooks EXCEPT !.prepareModel = Hook("null"), !.prepareTarget = Hook("identity")],
      [NoHooks EXCEPT !.prepareModel = Hook("copy"), !.prepareTarget = Hook("identity"),
                      !.prepareItem = Hook("identity"),
                      !.prepareItemModel = Hook("identity")] }

\* out/{{item.Name}}{{FileName}}.txt
ExportPathItem ==
    Str(<<"out/", "{", "{", "item", ".", "Name", "}", "}",
          "{", "{", "FileName", "}", "}", ".txt">>)

Cond(s) == Str(s)

\* A record's fields that are set: r restricted to the keys whose value is
\* not undefined (a key left out of the settings file).
Present(r) == [k \in {x \in DOMAIN r : r[x] # Undefined} |-> r[k]]

TargetChoices == {Undefined, Str(<<"Items">>)}

\* (SplitOn, FileNamePattern, RemoveFileName)
SplitChoices ==
    { <<Undefined, Undefined, Undefined>>,
      <<Str(<<"|">>), Undefined, Undefined>>,
      <<Str(<<"|">>), Str(<<"@", "(?<FileName>\\w+)">>), Undefined>>,
      <<Str(<<"|">>), Str(<<"@", "(?<FileName>\\w+)">>), Bool(TRUE)>> }

\* (GenerateIf, SkipIf)
ConditionChoices ==
    { <<Undefined, Undefined>>,
      <<Undefined, Cond(<<"item", ".", "Name", " ", "eq", " ", "B">>)>>,
      <<Cond(<<"item", ".", "Name", " ", "eq", " ", "A">>), Undefined>>,
      <<Cond(<<"env:", "GEN">>), Cond(<<"item", ".", "Prepared", " ", "eq", " ", "true">>)>>,
      <<Undefined, Cond(<<"Model", ".", "FileName", " ", "exists", " ", "true">>)>>,
      <<Cond(<<"item", ".", "Name">>), Undefined>>,
      <<Undefined, Cond(<<"item", ".", "Name", " ", "like", " ", "B">>)>> }

SettingsFile(tg, sp, cd, exportPath, enabled) ==
    Present([Target |-> tg, SplitOn |-> sp[1], FileNamePattern |-> sp[2],
             RemoveFileName |-> sp[3], GenerateIf |-> cd[1], SkipIf |-> cd[2],
             ExportPath |-> exportPath, Enabled |-> enabled])

\* out/{item.Name}/{FileName}.txt
ExportPathReplace ==
    Str(<<"out/", "{", "item", ".", "Name", "}", "/", "{", "FileName", "}", ".txt">>)

\* Settings files that ask for the replace strategy, over the list of items:
\* one result per item, and one per section with its file name.
ReplaceFiles ==
    { Present([Target |-> Str(<<"Items">>), ExportPath |-> ExportPathReplace,
               PrepareExportPathUsingReplace |-> Bool(TRUE),
               SplitOn |-> sp[1], FileNamePattern |-> sp[2]]) :
        sp \in { <<Undefined, Undefined>>,
                 <<Str(<<"|">>), Str(<<"@", "(?<FileName>\\w+)">>)>> } }

\* The parsed contents of the .hbs.settings.json files: every target, split
\* and condition choice with an export path; without conditions, also with
\* no ExportPath, and with Enabled: false.
SettingsFiles ==
    { SettingsFile(tg, sp, cd, ExportPathItem, Undefined) :
        tg \in TargetChoices, sp \in SplitChoices, cd \in ConditionChoices }
    \cup
    { SettingsFile(tg, sp, <<Undefined, Undefined>>, Undefined, Undefined) :
        tg \in TargetChoices, sp \in SplitChoices }
    \cup
    { SettingsFile(tg, sp, <<Undefined, Undefined>>, ExportPathItem, Bool(FALSE)) :
        tg \in TargetChoices, sp \in SplitChoices }
    \cup ReplaceFiles

Environments == { [v \in {} |-> <<>>], [v \in {<<"GEN">>} |-> <<"1">>] }

-----------------------------------------------------------------------------
(* State machine *)

\* No watch command is running.
NoWatch == [timer |-> FALSE, runs |-> <<>>, writes |-> <<>>]

\* No PluginManager has been constructed.
NoPlugins == [plugins |-> <<>>]

NoCall == [outcome |-> "none", ret |-> Undefined, log |-> <<>>, result |-> <<>>,
           model |-> Unset, target |-> Unset]

\* The template's fields after new Template(directoryPath, fileName): load
\* succeeded, threw while reading or parsing, or returned early because the
\* file name is not a template's.
Init ==
    /\ \E outcome \in {"loaded", "failed", "nomatch"} :
          /\ isLoaded = (outcome = "loaded")
          /\ errors = IF outcome = "failed"
                      THEN <<[phase |-> "load", message |-> <<"Failed to load template">>]>>
                      ELSE <<>>
          /\ IF outcome = "loaded"
             THEN /\ name = Str(<<"T">>)
                  /\ settings \in {TemplateSettings(d) : d \in SettingsFiles}
                  /\ script \in Scripts
                  /\ template \in Bodies
             ELSE /\ name = IF outcome = "failed" THEN Str(<<"T">>) ELSE Null
                  /\ settings = Null
                  /\ script = [NoHooks EXCEPT !.prepareModel = Hook("identity"),
                                              !.prepareTarget = Hook("identity"),
                                              !.prepareItem = Hook("identity"),
                                              !.prepareItemModel = Hook("identity")]
                  /\ template = Undefined
    /\ isGenerated = FALSE
    /\ result = <<>>
    /\ skippedItems = <<>>
    /\ env \in Environments
    /\ callerModel \in Models
    /\ calls = 0
    /\ last = NoCall
    /\ prev = NoCall
    /\ disk = NoFiles
    /\ loader = NoLoader
    /\ watch = NoWatch
    /\ pluginManager = NoPlugins

\* template.generate(model), by a caller that catches what it throws.
GenerateCall(model) ==
    /\ calls < MaxCalls
    /\ \E st \in {generate([isLoaded |-> isLoaded, settings |-> settings, script |-> script,
                               template |-> template, name |-> name, env |-> env],
                              [result |-> result, errors |-> errors,
                               skippedItems |-> skippedItems, isGenerated |-> isGenerated,
                               root |-> model, pm |-> Undefined, log |-> <<>>,
                               model |-> Unset, target |-> Unset,
                               outcome |-> "running", ret |-> Undefined, message |-> ""])} :
           /\ result' = st.result
           /\ errors' = st.errors
           /\ skippedItems' = st.skippedItems
           /\ isGenerated' = st.isGenerated
           /\ callerModel' = st.root
           /\ last' = [outcome |-> st.outcome, ret |-> st.ret, log |-> st.log,
                       result |-> st.result, model |-> st.model, target |-> st.target]
           /\ prev' = last
    /\ calls' = calls + 1
    /\ UNCHANGED <<isLoaded, name, settings, script, template, env, disk, loader>>
    /\ UNCHANGED <<watch, pluginManager>>

\* The caller generates again from the model object it holds.
Generate == GenerateCall(callerModel)

Next == Generate

Spec == Init /\ [][Next]_vars

-----------------------------------------------------------------------------
(* The condition gate on its own: settings.shouldGenerate(context) called  *)
(* with contexts of the shapes generate builds.                            *)

GateConditions ==
    { Undefined,
      Cond(<<"item", ".", "Name", " ", "eq", " ", "B">>),
      Cond(<<"item", ".", "Name", " ", "NE", " ", "B">>),
      Cond(<<"Model", ".", "Count", " ", "gt", " ", "1">>),
      Cond(<<"item", ".", "Missing", ".", "Name", " ", "exists", " ", "true">>),
      Cond(<<"item", ".", "Name", " ", "contains", " ", "A", " ", "B">>),
      Cond(<<"item", ".", "Name">>),
      Cond(<<"item", ".", "Name", " ", "like", " ", "B">>),
      Cond(<<"env:", "GEN">>),
      Cond(<<"env:", "SKIP">>) }

GateEnvironments ==
    { [v \in {} |-> <<>>],
      [v \in {<<"GEN">>} |-> <<"1">>],
      [v \in {<<"GEN">>, <<"SKIP">>} |-> IF v = <<"GEN">> THEN <<"false">> ELSE <<"1">>],
      [v \in {<<"GEN">>, <<"SKIP">>} |-> IF v = <<"GEN">> THEN <<"1">> ELSE <<"0">>],
      [v \in {<<"GEN">>, <<"SKIP">>} |-> IF v = <<"GEN">> THEN <<"1">> ELSE <<>>] }

GateContexts ==
    { Obj([Model |-> Obj([Name |-> Str(<<"M">>), Count |-> Num(count)]),
           model |-> Obj([Name |-> Str(<<"M">>), Count |-> Num(count)]),
           item |-> item]) :
        count \in {1, 2},
        item \in {ItemA, ItemB, Obj([Name |-> Str(<<"A", " ", "B">>)])} }

InitGate ==
    /\ isLoaded = TRUE
    /\ isGenerated = FALSE
    /\ result = <<>>
    /\ errors = <<>>
    /\ skippedItems = <<>>
    /\ name = Str(<<"T">>)
    /\ settings \in {TemplateSettings(Present([GenerateIf |-> g, SkipIf |-> k, Enabled |-> en])) :
                        g \in GateConditions, k \in GateConditions,
                        en \in {Undefined, Bool(FALSE)}}
    /\ script = Null
    /\ template = BodyItemName
    /\ env \in GateEnvironments
    /\ callerModel = Undefined
    /\ calls = 0
    /\ last = NoCall
    /\ prev = NoCall
    /\ disk = NoFiles
    /\ loader = NoLoader
    /\ watch = NoWatch
    /\ pluginManager = NoPlugins

\* settings.shouldGenerate(context)
ShouldGenerateCall ==
    /\ \E context \in GateContexts :
          last' = [outcome |-> "gate", ret |-> Bool(shouldGenerate(settings, env, context)),
                   log |-> LoggedWarnings([log |-> <<>>],
                                          shouldGenerateWarnings(settings, env, context), 0).log,
                   result |-> <<>>, model |-> context, target |-> Unset]
    /\ UNCHANGED <<isLoaded, isGenerated, result, errors, skippedItems, name, settings,
                   script, template, env, callerModel, calls, prev, disk, loader>>
    /\ UNCHANGED <<watch, pluginManager>>

NextGate == ShouldGenerateCall

SpecGate == InitGate /\ [][NextGate]_vars

-----------------------------------------------------------------------------
(* The writer on its own: results written, synchronously or not, to a     *)
(* disk in any state.                                                      *)

\* The paths of the disks written to.
WritePaths ==
    { PathSegments(path, <<>>) :
        path \in { <<"f">>, <<"out/">>, <<"out/", "f">>, <<"out/", "sub/">>,
                   <<"out/", "sub/", "f">> } }

WriteNodes == {Dir, File(<<>>), File(<<"x">>)}

\* The disks: every node is in a directory.
WriteDisks ==
    { d \in UNION {[S -> WriteNodes] : S \in SUBSET WritePaths} :
        \A p \in DOMAIN d : IsDirectory(d, dirname(p)) }

\* f, out/f, out/sub/f and out/sub
WriteResults ==
    { TemplateResult(filePath, content, appendToExisting) :
        filePath \in {<<"f">>, <<"out/", "f">>, <<"out/", "sub/", "f">>, <<"out/", "sub">>},
        content \in {<<"a">>, <<"b">>},
        appendToExisting \in BOOLEAN }

InitWrite ==
    /\ isLoaded = TRUE
    /\ isGenerated = FALSE
    /\ result = <<>>
    /\ errors = <<>>
    /\ skippedItems = <<>>
    /\ name = Str(<<"T">>)
    /\ settings = Null
    /\ script = Null
    /\ template = BodyItemName
    /\ env = [v \in {} |-> <<>>]
    /\ callerModel = Undefined
    /\ calls = 0
    /\ last = NoCall
    /\ prev = NoCall
    /\ disk \in WriteDisks
    /\ loader = NoLoader
    /\ watch = NoWatch
    /\ pluginManager = NoPlugins

\* The record of a writer call: the result written, the disk before it, and
\* whether it threw.
Written(op, r, before, done) ==
    [outcome |-> IF done.threw THEN "write threw" ELSE "written",
     op |-> op, result |-> r, before |-> before]

\* result.write()
WriteResult ==
    /\ calls < MaxWrites
    /\ \E r \in WriteResults :
         \E done \in {write(disk, r)} :
            /\ disk' = done.disk
            /\ last' = Written("write", r, disk, done)
    /\ calls' = calls + 1
    /\ UNCHANGED <<isLoaded, isGenerated, result, errors, skippedItems, name, settings,
                   script, template, env, callerModel, prev, loader>>
    /\ UNCHANGED <<watch, pluginManager>>

\* await result.writeAsync()
WriteResultAsync ==
    /\ calls < MaxWrites
    /\ \E r \in WriteResults :
         \E done \in {writeAsync(disk, r)} :
            /\ disk' = done.disk
            /\ last' = Written("writeAsync", r, disk, done)
    /\ calls' = calls + 1
    /\ UNCHANGED <<isLoaded, isGenerated, result, errors, skippedItems, name, settings,
                   script, template, env, callerModel, prev, loader>>
    /\ UNCHANGED <<watch, pluginManager>>

NextWrite == WriteResult \/ WriteResultAsync

SpecWrite == InitWrite /\ [][NextWrite]_vars

-----------------------------------------------------------------------------
(* The loader: generate or generateAsync called once on a loader with its  *)
(* templates loaded.                                                       *)

\* A loaded template, with nothing generated yet.
Loaded(templateName, settingsFile, body) ==
    [C |-> [isLoaded |-> TRUE, settings |-> TemplateSettings(settingsFile), script |-> Null,
            template |-> body, name |-> Str(templateName), env |-> [v \in {} |-> <<>>]],
     f |-> [result |-> <<>>, errors |-> <<>>, skippedItems |-> <<>>, isGenerated |-> FALSE]]

\* The templates found in the directories: one result per item (T), no
\* ExportPath (M), split sections of the whole model (A), and a body that
\* does not parse (B).
LoaderTemplates ==
    { Loaded(<<"T">>, SettingsFile(Str(<<"Items">>), <<Undefined, Undefined, Undefined>>,
                                   <<Undefined, Undefined>>, ExportPathItem, Undefined),
             BodyItemName),
      Loaded(<<"M">>, SettingsFile(Str(<<"Items">>), <<Undefined, Undefined, Undefined>>,
                                   <<Undefined, Undefined>>, Undefined, Undefined),
             BodyItemName),
      Loaded(<<"A">>, SettingsFile(Undefined, <<Str(<<"|">>), Undefined, Undefined>>,
                                   <<Undefined, Undefined>>, ExportPathItem, Undefined),
             BodySplit),
      Loaded(<<"B">>, SettingsFile(Undefined, <<Undefined, Undefined, Undefined>>,
                                   <<Undefined, Undefined>>, ExportPathItem, Undefined),
             BodyUnclosed) }

\* The loader's templates: no template twice.
LoaderLists ==
    { list \in SeqsUpTo(LoaderTemplates, MaxTemplates) :
        list # <<>> /\ \A a, b \in 1..Len(list) : a # b => list[a] # list[b] }

\* The output directory is empty, or out/B.txt is a directory.
LoaderDisks ==
    { NoFiles,
      (PathSegments(<<"out/">>, <<>>) :> Dir)
         @@ (PathSegments(<<"out/", "B", ".txt">>, <<>>) :> Dir) }

InitLoader ==
    /\ isLoaded = TRUE
    /\ isGenerated = FALSE
    /\ result = <<>>
    /\ errors = <<>>
    /\ skippedItems = <<>>
    /\ name = Str(<<"T">>)
    /\ settings = Null
    /\ script = Null
    /\ template = BodyItemName
    /\ env = [v \in {} |-> <<>>]
    /\ callerModel = Undefined
    /\ calls = 0
    /\ last = NoCall
    /\ prev = NoCall
    /\ disk \in LoaderDisks
    /\ loader \in { [phase |-> "ready", templates |-> list, errors |-> <<>>,
                      async |-> async, continueOnError |-> continueOnError, write |-> wr,
                      model |-> Obj([Name |-> Str(<<"M">>), Items |-> Arr(<<ItemA, ItemB>>)]),
                      k |-> 1, j |-> 0, trace |-> <<>>] :
                        list \in LoaderLists, async \in BOOLEAN,
                        continueOnError \in BOOLEAN, wr \in BOOLEAN }
    /\ watch = NoWatch
    /\ pluginManager = NoPlugins

\* loader.generate(model, null, options), run to its end; or
\* loader.generateAsync(model, options), run up to its next await of a
\* result's writeAsync, or to its end.
LoaderGenerate ==
    /\ loader.phase \in {"ready", "running"}
    /\ \E S \in {RunLoader([loader |-> loader, disk |-> disk])} :
          /\ loader' = S.loader
          /\ disk' = S.disk
    /\ UNCHANGED <<isLoaded, isGenerated, result, errors, skippedItems, name, settings,
                   script, template, env, callerModel, calls, last, prev>>
    /\ UNCHANGED <<watch, pluginManager>>

NextLoader == LoaderGenerate

SpecLoader == InitLoader /\ [][NextLoader]_vars

-----------------------------------------------------------------------------
(* Settings parsing and path resolution on their own: a settings file is   *)
(* parsed, and Template.prepareExportPath called with the file names and   *)
(* models generate passes to it.                                           *)

\* out/{FileName}.txt, out/{{FileName}}.txt, out/{item.Name}/{FileName}.txt,
\* and a settings file without ExportPath.
PathChoices ==
    { Str(<<"out/", "{", "FileName", "}", ".txt">>),
      Str(<<"out/", "{", "{", "FileName", "}", "}", ".txt">>),
      Str(<<"out/", "{", "item", ".", "Name", "}", "/", "{", "FileName", "}", ".txt">>),
      Undefined }

FlagChoices == {Undefined, Bool(TRUE), Bool(FALSE)}

PathFiles ==
    { Present([ExportPath |-> exportPath, PrepareExportPathUsingTemplate |-> usingTemplate,
               PrepareExportPathUsingReplace |-> usingReplace, Enabled |-> enabled]) :
        exportPath \in PathChoices, usingTemplate \in FlagChoices,
        usingReplace \in FlagChoices, enabled \in FlagChoices }

\* null (no file name extracted), "" and "F"
PathFileNames == {Null, Str(<<>>), Str(<<"F">>)}

\* The target of a call without a list, the same after a section left its
\* file name on it, and the item model of an element.
PathModels ==
    { Obj([Name |-> Str(<<"M">>)]),
      Obj([Name |-> Str(<<"M">>), FileName |-> Str(<<"F">>)]),
      Obj([item |-> ItemA, model |-> Obj([Name |-> Str(<<"M">>)]), target |-> Arr(<<ItemA>>)]) }

InitPath ==
    /\ isLoaded = TRUE
    /\ isGenerated = FALSE
    /\ result = <<>>
    /\ errors = <<>>
    /\ skippedItems = <<>>
    /\ name = Str(<<"T">>)
    /\ \E file \in PathFiles :
          /\ settings = TemplateSettings(file)
          /\ last = [outcome |-> "parsed", file |-> file]
    /\ script = Null
    /\ template = BodyItemName
    /\ env = [v \in {} |-> <<>>]
    /\ callerModel = Undefined
    /\ calls = 0
    /\ prev = NoCall
    /\ disk = NoFiles
    /\ loader = NoLoader
    /\ watch = NoWatch
    /\ pluginManager = NoPlugins

\* Template.prepareExportPath(settings, fileName, model)
PrepareExportPath ==
    /\ calls < MaxCalls
    /\ \E fileName \in PathFileNames, pathModel \in PathModels :
          last' = [outcome |-> "path", file |-> last.file, fileName |-> fileName,
                   model |-> pathModel,
                   ret |-> prepareExportPath(settings, fileName, pathModel)]
    /\ calls' = calls + 1
    /\ UNCHANGED <<isLoaded, isGenerated, result, errors, skippedItems, name, settings,
                   script, template, env, callerModel, prev, disk, loader>>
    /\ UNCHANGED <<watch, pluginManager>>

NextPath == PrepareExportPath

SpecPath == InitPath /\ [][NextPath]_vars

-----------------------------------------------------------------------------
(* cli.js, the watch command: the initial generation, the watcher's        *)
(* handler with its debounce timer, and runGeneration.                     *)
(*                                                                         *)
(* watch is a record:                                                      *)
(*   timer     : debounceTimer is pending                                  *)
(*   modelFile : the parsed content of the model file                      *)
(*   runs      : the TemplateLoader of each runGeneration started, in the  *)
(*               order they started, with the position of its              *)
(*               generateAsync call                                        *)
(*   writes    : the writes that completed, in the order they completed,   *)
(*               each [run, path, content]                                 *)

\* Number of generation runs started by a watch command.
MaxRuns == 3

\* The contents the model file takes.
WatchModels ==
    { Obj([Name |-> Str(<<"M">>), Items |-> Arr(items)]) :
        items \in {<<ItemA>>, <<ItemA, ItemB>>, <<ItemB, ItemA>>} }

\* The templates directory: one template, with one result per item.
WatchTemplates ==
    << Loaded(<<"T">>, SettingsFile(Str(<<"Items">>), <<Undefined, Undefined, Undefined>>,
                                    <<Undefined, Undefined>>, ExportPathItem, Undefined),
              BodyItemName) >>

\* The start of runGeneration: the model file is read and parsed, a new
\* TemplateLoader loads the templates, and generateAsync is called with
\* write: true (continueOnError is true or undefined: true by default).
NewRun(W) ==
    [phase |-> "ready", templates |-> WatchTemplates, errors |-> <<>>, async |-> TRUE,
     continueOnError |-> TRUE, write |-> TRUE, model |-> W.modelFile,
     k |-> 1, j |-> 0, trace |-> <<>>]

\* The run has started and its generateAsync has not settled.
InFlight(run) == run.phase \in {"ready", "running"}

\* The watcher exists: the initial generation has been awaited.
Watching(W) == W.runs # <<>> /\ ~InFlight(W.runs[1])

\* Mutant of StartRun: a run that starts cancels the runs in flight.
StartRunCancelling(W) ==
    [W EXCEPT !.timer = FALSE,
              !.runs = Append([n \in 1..Len(W.runs) |->
                                  IF InFlight(W.runs[n])
                                  THEN [W.runs[n] EXCEPT !.phase = "cancelled"]
                                  ELSE W.runs[n]],
                              NewRun(W))]

\* runGeneration is called, by the action of the command or by the timer:
\* nothing is done about the runs in flight.
StartRun(W) == [W EXCEPT !.timer = FALSE, !.runs = Append(@, NewRun(W))]

\* The write a step of a run completed, if it did.
Landed(before, after, n) ==
    IF before.j > 0 /\ ~after.trace[Len(after.trace)].threw
    THEN LET r == before.templates[before.k].f.result[before.j]
         IN  <<[run |-> n, path |-> r.filePath, content |-> r.content]>>
    ELSE <<>>

InitWatch ==
    /\ isLoaded = TRUE
    /\ isGenerated = FALSE
    /\ result = <<>>
    /\ errors = <<>>
    /\ skippedItems = <<>>
    /\ name = Str(<<"T">>)
    /\ settings = Null
    /\ script = Null
    /\ template = BodyItemName
    /\ env = [v \in {} |-> <<>>]
    /\ callerModel = Undefined
    /\ calls = 0
    /\ last = NoCall
    /\ prev = NoCall
    /\ disk = NoFiles
    /\ loader = NoLoader
    /\ watch \in {[timer |-> FALSE, modelFile |-> m, runs |-> <<>>, writes |-> <<>>] :
                    m \in WatchModels}
    /\ pluginManager = NoPlugins

\* watcher.on('all', ...): a watched file changed; the pending timer is
\* cleared and a new one set.
FileChanged ==
    /\ Watching(watch)
    /\ \E m \in WatchModels : watch' = [watch EXCEPT !.timer = TRUE, !.modelFile = m]
    /\ UNCHANGED <<isLoaded, isGenerated, result, errors, skippedItems, name, settings,
                   script, template, env, callerModel, calls, last, prev, disk, loader>>
    /\ UNCHANGED pluginManager

\* A run of runGeneration goes on to its next await: a new run (r = 0: the
\* initial generation, or the timer firing) starts and generates its first
\* template; a run in flight completes the write it awaits, or generates its
\* next template.
RunGeneration ==
    /\ \E r \in 0..Len(watch.runs) :
          /\ IF r = 0
             THEN Len(watch.runs) < MaxRuns /\ (watch.runs = <<>> \/ watch.timer)
             ELSE InFlight(watch.runs[r])
          /\ \E W \in {IF r = 0 THEN StartRun(watch) ELSE watch} :
             \E n \in {IF r = 0 THEN Len(W.runs) ELSE r} :
             \E S \in {LoaderStep([loader |-> W.runs[n], disk |-> disk])} :
                /\ disk' = S.disk
                /\ watch' = [W EXCEPT !.runs[n] = S.loader,
                                      !.writes = @ \o Landed(W.runs[n], S.loader, n)]
    /\ UNCHANGED <<isLoaded, isGenerated, result, errors, skippedItems, name, settings,
                   script, template, env, callerModel, calls, last, prev, loader>>
    /\ UNCHANGED pluginManager

NextWatch == FileChanged \/ RunGeneration

SpecWatch == InitWatch /\ [][NextWatch]_vars

-----------------------------------------------------------------------------
(* lib/PluginManager.js.                                                   *)
(*                                                                         *)
(* A plugin object is a record: its name ("" when it has none), the hook   *)
(* names it defines a function for, the hook names whose function throws,  *)
(* the names of its helpers, and id, telling apart two objects of the same *)
(* name.  A handler is the function of one plugin object for one hook.     *)
(*                                                                         *)
(* pluginManager is a record:                                              *)
(*   plugins : the entries of the _plugins map, in insertion order         *)
(*   hooks   : _hooks, a list of [pluginName, handler] for each hook name  *)
(*   helpers : the helper names registered with Handlebars                 *)
(*   exec    : the executeHooks call that is awaiting a handler, if any:   *)
(*             the array it iterates (live: still the array of _hooks),    *)
(*             the index it is at and the handlers it has invoked          *)
(*   last    : the last call that settled, with the plugins and hook lists *)
(*             it started from                                             *)

HookNames == {"onBeforeGenerate", "onAfterGenerate", "onBeforeWrite", "onAfterWrite",
              "transformModel", "transformResult"}

PluginObject(id, pluginName, handlers, throwing, helpers) ==
    [id |-> id, name |-> pluginName, handlers |-> handlers, throwing |-> throwing,
     helpers |-> helpers]

\* The arguments of register: two objects named a, one named b, one named c
\* whose onBeforeGenerate throws, an object without a name, and null.
PluginObjects ==
    { PluginObject(1, "a", {"onBeforeGenerate", "transformModel"}, {}, {"double"}),
      PluginObject(2, "a", {"transformModel"}, {}, {}),
      PluginObject(3, "b", {"onBeforeGenerate", "transformModel"}, {}, {}),
      PluginObject(4, "c", {"onBeforeGenerate"}, {"onBeforeGenerate"}, {}),
      PluginObject(5, "", {"onBeforeGenerate"}, {}, {"triple"}),
      Null }

PluginNames == {"a", "b", "c", "missing"}

\* plugin[hookName], a function.
Handler(plugin, hookName) ==
    [plugin |-> plugin.id, hook |-> hookName, throws |-> hookName \in plugin.throwing]

NoExec == [on |-> FALSE]

\* new PluginManager()
NewPluginManager ==
    [plugins |-> <<>>, hooks |-> [h \in HookNames |-> <<>>], helpers |-> {},
     exec |-> NoExec, last |-> [op |-> "new"]]

\* The call that settled, as observed by its caller.
Settled(P, before, op, hookName, threw, ret, invoked) ==
    [P EXCEPT !.last = [op |-> op, hookName |-> hookName, threw |-> threw, ret |-> ret,
                        invoked |-> invoked,
                        before |-> [plugins |-> before.plugins, hooks |-> before.hooks]]]

\* this._plugins.has(name)
has(P, pluginName) == \E k \in 1..Len(P.plugins) : P.plugins[k].name = pluginName

\* The call awaiting a handler sees the registry change.
Disturbed(exec) == IF exec.on THEN [exec EXCEPT !.disturbed = TRUE] ELSE exec

\* this._hooks[hookName] = ... : the call awaiting a handler goes on with the
\* array it took, which is no longer the array of _hooks.
Detached(P) ==
    IF P.exec.on /\ P.exec.live
    THEN [P.exec EXCEPT !.live = FALSE, !.array = P.hooks[P.exec.hookName],
                        !.disturbed = TRUE]
    ELSE Disturbed(P.exec)

\* register(plugin)
register(P, plugin) ==
    IF plugin = Null \/ plugin.name = ""
    THEN Settled(P, P, "register", "", TRUE, "Plugin must have a name property", <<>>)
    ELSE IF has(P, plugin.name)
    THEN Settled(P, P, "register", "", TRUE, "Plugin is already registered", <<>>)
    ELSE Settled([P EXCEPT
                    !.helpers = @ \cup plugin.helpers,
                    !.hooks = [h \in HookNames |->
                                  IF h \in plugin.handlers
                                  THEN Append(@[h], [pluginName |-> plugin.name,
                                                     handler |-> Handler(plugin, h)])
                                  ELSE @[h]],
                    !.plugins = Append(@, plugin),
                    !.exec = Disturbed(@)],
                 P, "register", "", FALSE, Undefined, <<>>)

\* Mutant of unregister: the hook lists are left as they are.
unregisterKeepingHooks(P, pluginName) ==
    IF ~has(P, pluginName) THEN Settled(P, P, "unregister", "", FALSE, Bool(FALSE), <<>>)
    ELSE Settled([P EXCEPT
                    !.plugins = SelectSeq(@, LAMBDA p : p.name # pluginName),
                    !.exec = Disturbed(P.exec)],
                 P, "unregister", "", FALSE, Bool(TRUE), <<>>)

\* unregister(name)
unregister(P, pluginName) ==
    IF ~has(P, pluginName) THEN Settled(P, P, "unregister", "", FALSE, Bool(FALSE), <<>>)
    ELSE Settled([P EXCEPT
                    !.hooks = [h \in HookNames |->
                                  SelectSeq(@[h], LAMBDA e : e.pluginName # pluginName)],
                    !.plugins = SelectSeq(@, LAMBDA p : p.name # pluginName),
                    !.exec = Detached(P)],
                 P, "unregister", "", FALSE, Bool(TRUE), <<>>)

\* clear()
clear(P) ==
    Settled([P EXCEPT !.hooks = [h \in HookNames |-> <<>>], !.plugins = <<>>,
                      !.exec = Detached(P)],
            P, "clear", "", FALSE, Undefined, <<>>)

\* The handlers a loop over the list invokes, in order: all of them, or
\* those up to the first that throws.
RECURSIVE Invoked(_)
Invoked(list) ==
    IF list = <<>> THEN <<>>
    ELSE IF Head(list).handler.throws THEN <<Head(list).handler>>
    ELSE <<Head(list).handler>> \o Invoked(Tail(list))

\* Whether a handler of the sequence threw.
Threw(invoked) == invoked # <<>> /\ invoked[Len(invoked)].throws

\* executeHooksSync(hookName, ...args)
executeHooksSync(P, hookName) ==
    Then(Invoked(P.hooks[hookName]),
         LAMBDA invoked :
           Settled(P, P, "executeHooksSync", hookName, Threw(invoked), Undefined, invoked))

\* transform(hookName, data): each handler returns its argument with its
\* plugin's id appended.
transform(P, hookName, data) ==
    Then(Invoked(P.hooks[hookName]),
         LAMBDA invoked :
           Settled(P, P, "transform", hookName, Threw(invoked),
                   IF Threw(invoked) THEN Undefined
                   ELSE data \o [k \in 1..Len(invoked) |-> invoked[k].plugin],
                   invoked))

\* The array an executeHooks call iterates.
ArrayOf(P) == IF P.exec.live THEN P.hooks[P.exec.hookName] ELSE P.exec.array

\* The for-of loop of executeHooks from where it is to its next await: the
\* loop ends, or the next handler is invoked, and throws or is awaited.
Resume(P) ==
    LET exec == P.exec
        list == ArrayOf(P)
    IN  IF exec.at > Len(list)
        THEN Settled([P EXCEPT !.exec = NoExec], exec.before,
                     IF exec.disturbed THEN "executeHooks, registry changed"
                     ELSE "executeHooks",
                     exec.hookName,
                     FALSE, Undefined, exec.invoked)
        ELSE IF list[exec.at].handler.throws
        THEN Settled([P EXCEPT !.exec = NoExec], exec.before,
                     IF exec.disturbed THEN "executeHooks, registry changed"
                     ELSE "executeHooks",
                     exec.hookName,
                     TRUE, Undefined, Append(exec.invoked, list[exec.at].handler))
        ELSE [P EXCEPT !.exec.at = @ + 1,
                       !.exec.invoked = Append(@, list[exec.at].handler)]

\* executeHooks(hookName, ...args), up to its first await.
executeHooks(P, hookName) ==
    Resume([P EXCEPT !.exec = [on |-> TRUE, hookName |-> hookName, live |-> TRUE,
                               array |-> <<>>, at |-> 1, invoked |-> <<>>,
                               disturbed |-> FALSE,
                               before |-> [plugins |-> P.plugins, hooks |-> P.hooks]]])

InitPlugins ==
    /\ isLoaded = TRUE
    /\ isGenerated = FALSE
    /\ result = <<>>
    /\ errors = <<>>
    /\ skippedItems = <<>>
    /\ name = Str(<<"T">>)
    /\ settings = Null
    /\ script = Null
    /\ template = BodyItemName
    /\ env = [v \in {} |-> <<>>]
    /\ callerModel = Undefined
    /\ calls = 0
    /\ last = NoCall
    /\ prev = NoCall
    /\ disk = NoFiles
    /\ loader = NoLoader
    /\ watch = NoWatch
    /\ pluginManager = NewPluginManager

Register ==
    /\ \E plugin \in PluginObjects : pluginManager' = register(pluginManager, plugin)
    /\ UNCHANGED <<isLoaded, isGenerated, result, errors, skippedItems, name, settings,
                   script, template, env, callerModel, calls, last, prev, disk, loader,
                   watch>>

Unregister ==
    /\ \E pluginName \in PluginNames : pluginManager' = unregister(pluginManager, pluginName)
    /\ UNCHANGED <<isLoaded, isGenerated, result, errors, skippedItems, name, settings,
                   script, template, env, callerModel, calls, last, prev, disk, loader,
                   watch>>

Clear ==
    /\ pluginManager' = clear(pluginManager)
    /\ UNCHANGED <<isLoaded, isGenerated, result, errors, skippedItems, name, settings,
                   script, template, env, callerModel, calls, last, prev, disk, loader,
                   watch>>

ExecuteHooksSync ==
    /\ \E hookName \in HookNames : pluginManager' = executeHooksSync(pluginManager, hookName)
    /\ UNCHANGED <<isLoaded, isGenerated, result, errors, skippedItems, name, settings,
                   script, template, env, callerModel, calls, last, prev, disk, loader,
                   watch>>

Transform ==
    /\ \E hookName \in {"transformModel", "transformResult"} :
          pluginManager' = transform(pluginManager, hookName, <<0>>)
    /\ UNCHANGED <<isLoaded, isGenerated, result, errors, skippedItems, name, settings,
                   script, template, env, callerModel, calls, last, prev, disk, loader,
                   watch>>

\* executeHooks is called while no other call of it is pending.
ExecuteHooks ==
    /\ ~pluginManager.exec.on
    /\ \E hookName \in HookNames : pluginManager' = executeHooks(pluginManager, hookName)
    /\ UNCHANGED <<isLoaded, isGenerated, result, errors, skippedItems, name, settings,
                   script, template, env, callerModel, calls, last, prev, disk, loader,
                   watch>>

\* The promise of the handler awaited settles, and the loop goes on.
ExecuteHooksResume ==
    /\ pluginManager.exec.on
    /\ pluginManager' = Resume(pluginManager)
    /\ UNCHANGED <<isLoaded, isGenerated, result, errors, skippedItems, name, settings,
                   script, template, env, callerModel, calls, last, prev, disk, loader,
                   watch>>

NextPlugins ==
    \/ Register \/ Unregister \/ Clear
    \/ ExecuteHooksSync \/ Transform \/ ExecuteHooks \/ ExecuteHooksResume

SpecPlugins == InitPlugins /\ [][NextPlugins]_vars

-----------------------------------------------------------------------------
(* A template generated more than once, each time from a model of the      *)
(* caller's choice: one result per item of the list, no split.             *)

InitCalls ==
    /\ Init
    /\ isLoaded
    /\ settings.target = Str(<<"Items">>)
    /\ ~Truthy(settings.splitOn)
    /\ env = [v \in {} |-> <<>>]
    /\ callerModel = Obj([Name |-> Str(<<"M">>), Items |-> Arr(<<>>)])

\* template.generate(model) with another model.
GenerateAnother == \E m \in Models : GenerateCall(m)

NextCalls == GenerateAnother

SpecCalls == InitCalls /\ [][NextCalls]_vars

-----------------------------------------------------------------------------
(* Template.write and Template.writeAsync: the results of a generated      *)
(* template written to a disk, by one call.                                *)
(*                                                                         *)
(* The call is a record: op ("write" or "writeAsync"), j (the results      *)
(* written so far), before (the disk it started on), log (the writes of    *)
(* results started and ended, in order) and outcome ("writing", "written"  *)
(* or "write threw").                                                      *)

\* Longest result list written.
MaxResults == 3

\* Result lists of a template: out/f and out/g, with the template's
\* appendToExisting on every result.
ResultLists ==
    { list \in SeqsUpTo({ TemplateResult(filePath, content, appendToExisting) :
                            filePath \in {<<"out/", "f">>, <<"out/", "g">>},
                            content \in {<<"a">>, <<"b">>},
                            appendToExisting \in BOOLEAN }, MaxResults) :
        /\ list # <<>>
        /\ \A a, b \in 1..Len(list) : list[a].appendToExisting = list[b].appendToExisting }

\* Nothing, out/ empty, out/f present, and a file named out.
AppendDisks ==
    { NoFiles,
      (PathSegments(<<"out/">>, <<>>) :> Dir),
      (PathSegments(<<"out/">>, <<>>) :> Dir)
         @@ (PathSegments(<<"out/", "f">>, <<>>) :> File(<<"x">>)),
      (PathSegments(<<"out/">>, <<>>) :> File(<<"x">>)) }

WriteCall(op, before) ==
    [op |-> op, outcome |-> "writing", j |-> 0, before |-> before, log |-> <<>>]

\* Mutant of ResultAt: the results are taken last first.
ResultAtFromEnd(results, j) == results[Len(results) + 1 - j]

\* for (const result of this._result): the result of the j-th round.
ResultAt(results, j) == results[j]

\* result.write() or result.writeAsync() is called for the next result.
StartResult(W) == [W EXCEPT !.log = Append(@, [ev |-> "start", n |-> W.j + 1])]

\* The write of the result has returned, or thrown; the loop ends after the
\* last of the results.
EndResult(W, done, total) ==
    IF done.threw
    THEN [W EXCEPT !.outcome = "write threw", !.log = Append(@, [ev |-> "threw", n |-> W.j + 1])]
    ELSE [W EXCEPT !.j = @ + 1, !.log = Append(@, [ev |-> "end", n |-> W.j + 1]),
                   !.outcome = IF W.j + 1 = total THEN "written" ELSE "writing"]

\* Template.write(), from the round S.call is at, on the disk S.disk.
RECURSIVE TemplateWrite(_, _)
TemplateWrite(S, results) ==
    IF S.call.outcome # "writing" THEN S
    ELSE Then(write(S.disk, ResultAt(results, S.call.j + 1)),
              LAMBDA done :
                TemplateWrite([call |-> EndResult(StartResult(S.call), done, Len(results)),
                               disk |-> done.disk], results))

\* Template.writeAsync() resumed when the write it awaits has settled, up to
\* its next await.
TemplateWriteAsyncResume(S, results) ==
    Then(writeAsync(S.disk, ResultAt(results, S.call.j + 1)),
         LAMBDA done :
           Then(EndResult(S.call, done, Len(results)),
                LAMBDA ended :
                  [call |-> IF ended.outcome = "writing" THEN StartResult(ended) ELSE ended,
                   disk |-> done.disk]))

InitAppend ==
    /\ isLoaded = TRUE
    /\ isGenerated = TRUE
    /\ result \in ResultLists
    /\ errors = <<>>
    /\ skippedItems = <<>>
    /\ name = Str(<<"T">>)
    /\ settings = Null
    /\ script = Null
    /\ template = BodyItemName
    /\ env = [v \in {} |-> <<>>]
    /\ callerModel = Undefined
    /\ calls = 0
    /\ last = NoCall
    /\ prev = NoCall
    /\ disk \in AppendDisks
    /\ loader = NoLoader
    /\ watch = NoWatch
    /\ pluginManager = NoPlugins

\* template.write()
Write ==
    /\ last.outcome = "none"
    /\ \E S \in {TemplateWrite([call |-> WriteCall("write", disk), disk |-> disk], result)} :
          /\ last' = S.call
          /\ disk' = S.disk
    /\ UNCHANGED <<isLoaded, isGenerated, result, errors, skippedItems, name, settings,
                   script, template, env, callerModel, calls, prev, loader>>
    /\ UNCHANGED <<watch, pluginManager>>

\* template.writeAsync(), up to its first await.
WriteAsync ==
    /\ last.outcome = "none"
    /\ last' = StartResult(WriteCall("writeAsync", disk))
    /\ UNCHANGED <<isLoaded, isGenerated, result, errors, skippedItems, name, settings,
                   script, template, env, callerModel, calls, prev, loader, disk>>
    /\ UNCHANGED <<watch, pluginManager>>

\* The awaited result.writeAsync() settles and the loop goes on.
WriteAsyncResume ==
    /\ last.outcome = "writing"
    /\ \E S \in {TemplateWriteAsyncResume([call |-> last, disk |-> disk], result)} :
          /\ last' = S.call
          /\ disk' = S.disk
    /\ UNCHANGED <<isLoaded, isGenerated, result, errors, skippedItems, name, settings,
                   script, template, env, callerModel, calls, prev, loader>>
    /\ UNCHANGED <<watch, pluginManager>>

\* A second writeAsync() call over the same results (the template of a run
\* that overlaps this one), made or resumed while the first call awaits.
OtherWriteAsync ==
    /\ last.outcome = "writing"
    /\ prev.outcome \in {"none", "writing"}
    /\ \E W \in {IF prev.outcome = "none" THEN StartResult(WriteCall("writeAsync", disk))
                  ELSE prev} :
         \E S \in {TemplateWriteAsyncResume([call |-> W, disk |-> disk], result)} :
            /\ prev' = S.call
            /\ disk' = S.disk
    /\ UNCHANGED <<isLoaded, isGenerated, result, errors, skippedItems, name, settings,
                   script, template, env, callerModel, calls, last, loader>>
    /\ UNCHANGED <<watch, pluginManager>>

NextAppend == Write \/ WriteAsync \/ WriteAsyncResume \/ OtherWriteAsync

SpecAppend == InitAppend /\ [][NextAppend]_vars

-----------------------------------------------------------------------------
(* Observations used by the properties *)

\* The events of a kind in the log of the last call, and their records.
Events(ev) == SelectSeq(last.log, LAMBDA e : e.ev = ev)
Records(ev) == [k \in 1..Len(Events(ev)) |-> Events(ev)[k].rec]

\* Whether the last call made an event of that kind for item i.
Did(ev, i) == \E k \in 1..Len(last.log) : last.log[k].ev = ev /\ last.log[k].i = i

\* The last call was a generate call on a loaded, enabled template.
EnabledCall == calls > 0 /\ isLoaded /\ settings.enabled

\* The last call reached the loop over an array target.
ArrayCall == EnabledCall /\ last.target.t = "arr"

\* What the hooks make of element i of the target of the last call.
ProcessedItem(i) ==
    IF HasHook(script, "prepareItem") THEN ApplyHook(script.prepareItem, last.target.e[i])
    ELSE last.target.e[i]

BuiltItemModel(i) ==
    Obj((KeyOf(settings.targetItem, "item") :> ProcessedItem(i))
        @@ (KeyOf(settings.modelProperty, "model") :> last.model)
        @@ (KeyOf(settings.targetProperty, "target") :> last.target))

ProcessedItemModel(i) ==
    IF HasHook(script, "prepareItemModel")
    THEN ApplyHook(script.prepareItemModel, BuiltItemModel(i))
    ELSE BuiltItemModel(i)

ItemContext(i) == Obj(ProcessedItemModel(i).f @@ ("Model" :> last.model))

\* No item hook returns null on the target of the last call.
HooksNeverNull ==
    \A i \in 1..Len(last.target.e) :
        /\ HasHook(script, "prepareItem") => ProcessedItem(i) # Null
        /\ HasHook(script, "prepareItemModel") => ProcessedItemModel(i) # Null

\* The i-th result of a fan-out is the render and the resolved path of the
\* i-th element.
FanOutResults ==
    /\ Len(result) = Len(last.target.e)
    /\ \A i \in 1..Len(last.target.e) :
          LET rendered == Render(template, ProcessedItemModel(i))
              resolved == prepareExportPath(settings, Null, ProcessedItemModel(i))
          IN  /\ i <= Len(result)
              /\ ~rendered.threw /\ result[i].content = rendered.s
              /\ ~resolved.threw /\ Str(result[i].filePath) = resolved.path

FanOutCase ==
    /\ ArrayCall
    /\ ~Truthy(settings.generateIf) /\ ~Truthy(settings.skipIf)
    /\ ~Truthy(settings.splitOn)
    /\ HooksNeverNull

\* The item the last call was working on when it stopped.
LastItem == IF last.log = <<>> THEN 0 ELSE last.log[Len(last.log)].i

\* The item indices of the events of a kind increase along the log.
InItemOrder(ev) ==
    \A j, k \in 1..Len(Events(ev)) : j < k => Events(ev)[j].i < Events(ev)[k].i

-----------------------------------------------------------------------------
(* Properties *)

\* C1: two generate calls in a row with the same model object leave the same
\* ordered result list (same length, same path and content at each position).
C1_Idempotent == (isLoaded /\ calls >= 2) => prev.result = last.result

\* C2: a template whose load failed never generates: every generate call on
\* it throws, invokes no hook and no render, and leaves the result list empty
\* and isGenerated false.
C2_NotLoadedNeverGenerates ==
    ~isLoaded =>
        /\ result = <<>>
        /\ ~isGenerated
        /\ calls > 0 => (last.outcome = "threw" /\ last.log = <<>>)

C2_Witness == ~isLoaded /\ calls >= 2 /\ last.outcome = "threw" /\ prev.outcome = "threw"

\* C3: with settings.enabled false, generate returns the disabled skip
\* signal for every model, produces no result and invokes no hook, no target
\* resolution, no condition evaluation and no render.
C3_DisabledShortCircuit ==
    (calls > 0 /\ isLoaded /\ ~settings.enabled) =>
        /\ last.outcome = "returned"
        /\ last.ret = SkipSignal(<<"Template is disabled">>)
        /\ result = <<>>
        /\ last.log = <<>>

C3_Witness ==
    /\ calls >= 2 /\ isLoaded /\ ~settings.enabled
    /\ HasHook(script, "prepareModel") /\ HasHook(script, "prepareItem")
    /\ Len(callerModel.f.Items.e) = 2
    /\ last.ret = SkipSignal(<<"Template is disabled">>)

\* C4: at the end of every generate call (completed, skipped or thrown), the
\* result, error and skipped-item lists hold exactly the records that call
\* pushed, and none of an earlier call.
C4_StateResetPerCall ==
    calls > 0 =>
        /\ result = Records("push")
        /\ errors = Records("error")
        /\ skippedItems = Records("skip")

C4_Witness ==
    /\ calls >= 2
    /\ prev.result # <<>>
    /\ result # <<>> /\ errors # <<>> /\ skippedItems # <<>>

ConditionHolds(c, context) ==
    IF IsEnvForm(c) THEN EnvSet(EnvValue(env, c)) ELSE evaluateCondition(c, context)

\* C6: for an enabled template, shouldGenerate(context) is true exactly when
\* the generateIf condition holds or is absent and the skipIf condition does
\* not hold or is absent, a condition of the env: form holding when the
\* variable has a non-empty value other than "false" and "0", and a path
\* expression when evaluateCondition answers true.
C6_GateComposition ==
    (last.outcome = "gate" /\ settings.enabled) =>
        (last.ret = Bool(TRUE)
            <=> /\ (~Truthy(settings.generateIf) \/ ConditionHolds(settings.generateIf, last.model))
                /\ (~Truthy(settings.skipIf) \/ ~ConditionHolds(settings.skipIf, last.model)))

C6_Witness ==
    /\ last.outcome = "gate" /\ settings.enabled
    /\ Truthy(settings.generateIf) /\ IsEnvForm(settings.generateIf)
    /\ Truthy(settings.skipIf) /\ ~IsEnvForm(settings.skipIf)
    /\ Len(SplitWhitespace(settings.skipIf.s)) >= 3
    /\ last.ret = Bool(TRUE)

\* The last call had a two-element target whose first element prepareItem
\* turns into null.
FirstItemFatal ==
    /\ ArrayCall /\ Len(last.target.e) = 2
    /\ HasHook(script, "prepareItem") /\ ProcessedItem(1) = Null

\* C7: when prepareItem returns null for the first element of a two-element
\* target array, generate throws, the result list is empty afterwards, and
\* no hook, condition check or render is made for the second element.
C7_FatalHookOnFirstItem ==
    FirstItemFatal =>
        /\ last.outcome = "threw"
        /\ result = <<>>
        /\ \A k \in 1..Len(last.log) : last.log[k].i # 2

C7_Witness == FirstItemFatal /\ Did("prepareItem", 1) /\ ProcessedItem(2) # Null

\* C8: when an array-target call aborts on a fatal error at an element after
\* the first, the results of the earlier elements are discarded: the result
\* list is empty after the throw.
C8_DiscardOnFatal ==
    (ArrayCall /\ last.outcome = "threw" /\ LastItem > 1) => result = <<>>

\* C9: for an array target of length N, no splitOn and no fatal error, the
\* results and the skip records together number N; an element has a skip
\* record exactly when shouldGenerate is false for its context, a skipped
\* element is never rendered, and both lists keep the input order.
C9_SkipAccounting ==
    (ArrayCall /\ last.outcome = "returned" /\ ~Truthy(settings.splitOn)) =>
        /\ Len(result) + Len(skippedItems) = Len(last.target.e)
        /\ \A i \in 1..Len(last.target.e) :
              /\ Did("skip", i) \/ Did("push", i)
              /\ ~shouldGenerate(settings, env, ItemContext(i))
                    <=> \E k \in 1..Len(skippedItems) :
                            /\ Events("skip")[k].i = i
                            /\ skippedItems[k].item = ProcessedItem(i)
              /\ (\E k \in 1..Len(Events("skip")) : Events("skip")[k].i = i)
                    => (~Did("render", i) /\ ~Did("push", i))
        /\ Len(Events("skip")) = Len(skippedItems)
        /\ InItemOrder("skip") /\ InItemOrder("push")

C9_Witness ==
    /\ ArrayCall /\ last.outcome = "returned" /\ ~Truthy(settings.splitOn)
    /\ Len(last.target.e) = 2
    /\ Len(result) = 1 /\ Len(skippedItems) = 1
    /\ Events("skip")[1].i = 1

\* C10 (as claimed): prepareItem and prepareItemModel are invoked only for
\* elements that go on to be rendered, never for an element that ends up in
\* the skipped list.
C10_ItemHooksGatedAsClaimed ==
    ArrayCall =>
        \A k \in 1..Len(Events("skip")) :
            /\ ~Did("prepareItem", Events("skip")[k].i)
            /\ ~Did("prepareItemModel", Events("skip")[k].i)

\* C10 (amended): on a non-disabled call of a loaded template, prepareModel
\* (when defined) runs once, prepareTarget (when defined) runs once unless
\* prepareModel returned null, and prepareItem and prepareItemModel (when
\* defined) run for every element before its condition check, so also for
\* every element that ends up in the skipped list.
C10_ItemHooksBeforeGate ==
    EnabledCall =>
        /\ HasHook(script, "prepareModel") => Len(Events("prepareModel")) = 1
        /\ (HasHook(script, "prepareTarget") /\ last.model # Unset)
              => Len(Events("prepareTarget")) = 1
        /\ \A k \in 1..Len(last.log) :
              (last.log[k].ev = "shouldGenerate" /\ last.log[k].i >= 1) =>
                  /\ HasHook(script, "prepareItem") =>
                        \E j \in 1..(k - 1) : last.log[j] = Event("prepareItem", last.log[k].i)
                  /\ HasHook(script, "prepareItemModel") =>
                        \E j \in 1..(k - 1) :
                            last.log[j] = Event("prepareItemModel", last.log[k].i)

C10_Witness ==
    /\ ArrayCall
    /\ HasHook(script, "prepareItem") /\ HasHook(script, "prepareItemModel")
    /\ Len(skippedItems) = 2
    /\ Did("prepareItem", 2) /\ Did("prepareItemModel", 2)

\* A path-expression condition that evaluateCondition cannot read.
Malformed(c) ==
    /\ Truthy(c) /\ ~IsEnvForm(c)
    /\ \/ Len(SplitWhitespace(c.s)) < 3
       \/ ToLowerCase(SplitWhitespace(c.s)[2]) \notin KnownOperators

\* The unit of the last call at index i (0: the whole model) was skipped.
UnitSkipped(i) == IF i = 0 THEN last.ret # Undefined ELSE Did("skip", i)

\* The last call warned about expression c at index i.
Warned(c, i) ==
    \E k \in 1..Len(last.log) :
        last.log[k].ev = "warn" /\ last.log[k].i = i /\ last.log[k].rec = c

\* The error records that are not about a split section's file name.
OtherDiagnostics ==
    SelectSeq(errors, LAMBDA r : r.message[1] # "FileNamePattern did not match in section")

SplitCall == EnabledCall /\ Truthy(settings.splitOn)

\* The text the last call rendered for the unit at index i (0: the target
\* itself, else the i-th element's item model), and its sections: the text
\* cut at every marker (none when the render threw).
UnitContent(i) == Render(template, IF i = 0 THEN last.target ELSE ProcessedItemModel(i))

UnitSections(i) ==
    IF UnitContent(i).threw THEN <<>> ELSE Split(UnitContent(i).s, settings.splitOn.s)

\* The (one-based) positions of the sections of unit i that are not white
\* space only, in order.
RetainedSections(i) ==
    SelectSeq([j \in 1..Len(UnitSections(i)) |-> j],
              LAMBDA j : Trim(UnitSections(i)[j]) # <<>>)

\* The results the last call pushed for unit i, in order.
UnitResults(i) == SelectSeq(Events("push"), LAMBDA e : e.i = i)

\* The units the last call rendered.
RenderedUnits == {last.log[k].i : k \in {n \in 1..Len(last.log) : last.log[n].ev = "render"}}

\* Split order and trimmed bodies: the k-th result of unit i is the k-th
\* retained section, trimmed (after the removal of the file name, when
\* RemoveFileName asks for it).
SectionsBecomeResults(i) ==
    /\ Len(UnitResults(i)) = Len(RetainedSections(i))
    /\ \A k \in 1..Len(RetainedSections(i)) :
          k <= Len(UnitResults(i)) =>
              LET body == UnitResults(i)[k].rec.content
                  section == UnitSections(i)[RetainedSections(i)[k]]
              IN  /\ body = Trim(body)
                  /\ ~Truthy(settings.removeFileName) => body = Trim(section)
                  /\ Len(body) <= Len(Trim(section))

PatternCall == SplitCall /\ Truthy(settings.fileNamePattern)

\* The pattern finds no file name in the section.
NoFileName(section) ==
    LET nameMatch == RegexExec(settings.fileNamePattern.s, section)
    IN  ~nameMatch.threw /\ ~(nameMatch.matched /\ nameMatch.named /\ nameMatch.group # <<>>)

\* The default file name of the section at (one-based) position j of unit i.
DefaultFileName(i, j) ==
    (IF i = 0 THEN ToStr(name)
     ELSE ToStr(name) \o <<"-">> \o
          (IF Truthy(GetProp(ProcessedItem(i), <<"Name">>))
           THEN ToStr(GetProp(ProcessedItem(i), <<"Name">>)) ELSE <<"item">>))
    \o <<"-">> \o ToStr(Num(j - 1))

\* The diagnostics the last call recorded for unit i about the pattern.
NoMatchErrors(i) ==
    SelectSeq(Events("error"),
              LAMBDA e : e.i = i /\ e.rec.message[1] = "FileNamePattern did not match in section")

\* The retained sections of unit i the pattern finds no file name in.
UnnamedSections(i) ==
    SelectSeq(RetainedSections(i), LAMBDA j : NoFileName(UnitSections(i)[j]))

\* Every retained section of unit i without a file name has its result, named
\* by its default; each has one generate-phase record, and every retained
\* section, also the later ones, has its result.
FallbackOf(i) ==
    /\ Len(UnitResults(i)) = Len(RetainedSections(i))
    /\ \A k \in 1..Len(RetainedSections(i)) :
          NoFileName(UnitSections(i)[RetainedSections(i)[k]]) =>
              /\ k <= Len(UnitResults(i))
              /\ IsSuffix(DefaultFileName(i, RetainedSections(i)[k]) \o <<".txt">>,
                          UnitResults(i)[k].rec.filePath)
    /\ Len(NoMatchErrors(i)) = Len(UnnamedSections(i))
    /\ \A k \in 1..Len(UnnamedSections(i)) :
          k <= Len(NoMatchErrors(i)) =>
              /\ NoMatchErrors(i)[k].rec.phase = "generate"
              /\ NoMatchErrors(i)[k].rec.message[3] = DefaultFileName(i, UnnamedSections(i)[k])

WriterCall == last.outcome \in {"written", "write threw"}

\* The path of the result of the last writer call.
WrittenPath == PathSegments(last.result.filePath, <<>>)

\* What the claim says of the last writer call: the directory exists, and the
\* file holds the old content followed by the result's when appending to a
\* file that existed, and the result's content otherwise.
WriterOutcome ==
    /\ IsDirectory(disk, dirname(WrittenPath))
    /\ WrittenPath \in DOMAIN disk
    /\ disk[WrittenPath] =
          IF last.result.appendToExisting /\ WrittenPath \in DOMAIN last.before
          THEN File((IF last.before[WrittenPath].k = "file"
                     THEN last.before[WrittenPath].c ELSE <<>>) \o last.result.content)
          ELSE File(last.result.content)

\* Both writers leave the same disk, and throw alike, on the present disk.
WritersAgree == \A r \in WriteResults : write(disk, r) = writeAsync(disk, r)

LoaderWrites == loader.phase \in {"running", "returned", "threw"} /\ loader.write

\* The place of a template in the loader's list.
PlaceOf(templateName) ==
    CHOOSE k \in 1..Len(loader.templates) : loader.templates[k].C.name = templateName

\* C15: with write=true, every render of a template comes before the first
\* write of any of its results, and the templates are dealt with one at a
\* time in loader order: nothing is done for a template once something has
\* been done for a later one.
C15_NoInterleaving ==
    LoaderWrites =>
        \A a, b \in 1..Len(loader.trace) :
            a < b =>
                /\ PlaceOf(loader.trace[a].template) <= PlaceOf(loader.trace[b].template)
                /\ ~(/\ loader.trace[a].ev = "write"
                     /\ loader.trace[b].ev \in {"generate", "render"}
                     /\ loader.trace[a].template = loader.trace[b].template)

C15_Witness ==
    /\ LoaderWrites /\ loader.async /\ loader.phase = "running"
    /\ Len(loader.templates) = 2
    /\ [n \in 1..Len(loader.trace) |-> <<loader.trace[n].ev, PlaceOf(loader.trace[n].template)>>]
          = << <<"generate", 1>>, <<"render", 1>>, <<"render", 1>>, <<"write", 1>>,
               <<"write", 1>>, <<"generate", 2>>, <<"render", 2>>, <<"write", 2>> >>

\* The loader's call, made with continueOnError, has come to its end.
BatchDone == loader.phase \in {"returned", "threw"} /\ loader.continueOnError

\* What the trace has of a kind for a template.
TraceOf(ev, templateName) ==
    SelectSeq(loader.trace, LAMBDA e : e.ev = ev /\ e.template = templateName)

\* The generate call of the template threw; one of its writes did.
GenerateThrew(templateName) == \E n \in 1..Len(loader.trace) :
    loader.trace[n] = Traced("generate", templateName, 0, TRUE)

WriteThrew(templateName) == \E n \in 1..Len(loader.trace) :
    /\ loader.trace[n].ev = "write" /\ loader.trace[n].template = templateName
    /\ loader.trace[n].threw

\* The loader's error records that carry the template's name.
ErrorsOf(templateName) ==
    SelectSeq(loader.errors, LAMBDA r : r.phase = "generate" /\ r.template = templateName)

\* The results of the template that were written.
WrittenOf(templateName) ==
    SelectSeq(TraceOf("write", templateName), LAMBDA e : ~e.threw)

\* The call does not throw; a template has one error record when it failed
\* and none otherwise; every template is generated, and written in full
\* when it did not fail.
BatchContinues ==
    /\ loader.phase = "returned"
    /\ \A k \in 1..Len(loader.templates) :
          LET templateName == loader.templates[k].C.name
              failed == GenerateThrew(templateName) \/ WriteThrew(templateName)
          IN  /\ Len(ErrorsOf(templateName)) = IF failed THEN 1 ELSE 0
              /\ Len(TraceOf("generate", templateName)) = 1
              /\ (~failed /\ loader.write) =>
                    [n \in 1..Len(WrittenOf(templateName)) |-> WrittenOf(templateName)[n].n]
                       = [n \in 1..Len(loader.templates[k].f.result) |-> n]
              /\ ~loader.write => TraceOf("write", templateName) = <<>>

\* C16 (as claimed): with continueOnError=true the loader's generate never
\* throws; a template whose generate or write throws has exactly one error
\* record with its name and none of its results written; the later
\* templates are still generated and written.
C16_BatchContinuesAsClaimed ==
    BatchDone =>
        /\ BatchContinues
        /\ \A k \in 1..Len(loader.templates) :
              (GenerateThrew(loader.templates[k].C.name) \/ WriteThrew(loader.templates[k].C.name))
                 => WrittenOf(loader.templates[k].C.name) = <<>>

\* C16 (amended): the same, but only a template whose generate throws has
\* none of its results written; when a write throws, the results before the
\* failing one have been written and the others have not.
C16_BatchContinues ==
    BatchDone =>
        /\ BatchContinues
        /\ \A k \in 1..Len(loader.templates) :
              LET templateName == loader.templates[k].C.name
              IN  /\ GenerateThrew(templateName) => TraceOf("write", templateName) = <<>>
                  /\ WriteThrew(templateName) =>
                        \E failing \in 1..Len(loader.templates[k].f.result) :
                            /\ [n \in 1..Len(WrittenOf(templateName)) |->
                                   WrittenOf(templateName)[n].n] = [n \in 1..(failing - 1) |-> n]
                            /\ Len(TraceOf("write", templateName)) = failing

C16_Witness ==
    /\ BatchDone /\ ~loader.async /\ loader.write /\ Len(loader.templates) = 2
    /\ GenerateThrew(loader.templates[1].C.name)
    /\ Len(loader.errors) = 1 /\ loader.errors[1].template = loader.templates[1].C.name
    /\ Len(WrittenOf(loader.templates[2].C.name)) = 2
    /\ loader.phase = "returned"

\* The template has just been constructed: no generate call was made on it.
Constructed == calls = 0 /\ last = NoCall

\* C17: after the construction of a Template, isLoaded = false implies a
\* load-phase record in the error list, and isLoaded = true implies an empty
\* error list with name, compiled template and settings set.
C17_LoadFailureReported ==
    Constructed =>
        /\ ~isLoaded => \E n \in 1..Len(errors) : errors[n].phase = "load"
        /\ isLoaded => /\ errors = <<>>
                       /\ name \notin {Null, Undefined}
                       /\ template \notin {Null, Undefined}
                       /\ settings \notin {Null, Undefined}

\* The settings were parsed from a file.
Parsed == last.outcome \in {"parsed", "path"}

\* The field of the settings each key of the file is parsed to, and the
\* documented default of each.
FieldOf ==
    [Target |-> "target", TargetItem |-> "targetItem", TargetProperty |-> "targetProperty",
     ModelProperty |-> "modelProperty", TargetItemNameProperty |-> "targetItemNameProperty",
     ExportPath |-> "exportPath",
     PrepareExportPathUsingTemplate |-> "prepareExportPathUsingTemplate",
     PrepareExportPathUsingReplace |-> "prepareExportPathUsingReplace",
     AppendToExisting |-> "appendToExisting", FileNamePattern |-> "fileNamePattern",
     SplitOn |-> "splitOn", RemoveFileName |-> "removeFileName",
     GenerateIf |-> "generateIf", SkipIf |-> "skipIf"]

DefaultOf ==
    [Target |-> Str(<<"Model">>), TargetItem |-> Str(<<"item">>),
     TargetProperty |-> Str(<<"target">>), ModelProperty |-> Str(<<"model">>),
     TargetItemNameProperty |-> Str(<<"Name">>), ExportPath |-> Null,
     PrepareExportPathUsingTemplate |-> Bool(TRUE),
     PrepareExportPathUsingReplace |-> Bool(FALSE),
     AppendToExisting |-> Bool(FALSE), FileNamePattern |-> Null,
     SplitOn |-> Null, RemoveFileName |-> Bool(FALSE),
     GenerateIf |-> Null, SkipIf |-> Null]

\* The last step was a path resolution that returned.
PathCall == last.outcome = "path" /\ ~last.ret.threw

\* C18: every field of the parsed settings has the value the file supplies
\* for its key, an explicit false included, and the documented default when
\* the key is not supplied; so with PrepareExportPathUsingTemplate: false
\* the template strategy does not run (without the replace strategy the
\* path is the export path as written).
C18_SettingsAsSupplied ==
    Parsed =>
        /\ \A key \in DOMAIN FieldOf :
              settings[FieldOf[key]] =
                 IF key \in DOMAIN last.file THEN last.file[key] ELSE DefaultOf[key]
        /\ settings.enabled =
              IF "Enabled" \in DOMAIN last.file THEN last.file["Enabled"].b ELSE TRUE
        /\ ( /\ PathCall
             /\ "PrepareExportPathUsingTemplate" \in DOMAIN last.file
             /\ last.file["PrepareExportPathUsingTemplate"] = Bool(FALSE)
             /\ ~Truthy(settings.prepareExportPathUsingReplace) )
           => last.ret.path = settings.exportPath

\* Both strategies were enabled in the last path resolution.
BothStrategies ==
    /\ PathCall
    /\ Truthy(settings.prepareExportPathUsingReplace)
    /\ Truthy(settings.prepareExportPathUsingTemplate)

FileNamePlaceholder == <<"{", "FileName", "}">>
FileNameExpression == <<"{", "{", "FileName", "}", "}">>

\* A file name was passed to the call; one is on the model.
FileNamePassed == Truthy(last.fileName) /\ ~isEmpty(last.fileName)
FileNameOnModel == Truthy(GetProp(last.model, <<"FileName">>))

\* C19 (as claimed): with both strategies, a {FileName} placeholder the
\* replace pass left, for want of a file name, is resolved by the template
\* pass: the final path has no {FileName} in it when a file name is
\* available to the template pass.
C19_PlaceholderResolvedAsClaimed ==
    ( /\ BothStrategies
      /\ Includes(settings.exportPath.s, FileNamePlaceholder)
      /\ FileNamePassed \/ FileNameOnModel )
    => ~Includes(last.ret.path.s, FileNamePlaceholder)

\* C19 (amended): with both strategies the replace pass runs first and the
\* template pass on its output: with a file name, {FileName} is replaced
\* also inside {{FileName}}, which the template pass then reads as text;
\* without one, the template pass resolves a {{FileName}} expression from
\* the model, and a single-brace {FileName} stays in the final path.
C19_ReplaceThenTemplate ==
    BothStrategies =>
        /\ (FileNamePassed /\ Includes(settings.exportPath.s, FileNameExpression))
              => Includes(last.ret.path.s, <<"{">> \o last.fileName.s \o <<"}">>)
        /\ (~FileNamePassed /\ Includes(settings.exportPath.s, FileNameExpression))
              => /\ ~Includes(last.ret.path.s, FileNamePlaceholder)
                 /\ FileNameOnModel =>
                       Includes(last.ret.path.s, GetProp(last.model, <<"FileName">>).s)
        /\ ( /\ ~FileNamePassed
             /\ Includes(settings.exportPath.s, FileNamePlaceholder)
             /\ ~Includes(settings.exportPath.s, FileNameExpression) )
              => Includes(last.ret.path.s, FileNamePlaceholder)

C19_Witness ==
    /\ BothStrategies /\ ~FileNamePassed /\ FileNameOnModel
    /\ settings.exportPath = Str(<<"out/", "{", "FileName", "}", ".txt">>)
    /\ last.ret.path = settings.exportPath

\* The last call reached the loop over an array target with the replace
\* strategy enabled.
ReplaceCall == ArrayCall /\ Truthy(settings.prepareExportPathUsingReplace)

\* {<targetItem>.<targetItemNameProperty>}
NamePlaceholder ==
    <<"{">> \o settings.targetItem.s \o <<".">> \o settings.targetItemNameProperty.s \o <<"}">>

\* The name of element i: its targetItemNameProperty, as the hooks leave it.
ItemName(i) == GetProp(ProcessedItem(i), settings.targetItemNameProperty.s)

\* C20: with the replace strategy in array mode, {<targetItem>.<name
\* property>} in exportPath is replaced by the name read off the current
\* item whenever that name is present and non-empty, and {FileName} by the
\* extracted file name whenever there is one.
C20_ReplaceUsesItemName ==
    ReplaceCall =>
        \A n \in 1..Len(Events("push")) :
            LET i == Events("push")[n].i
                filePath == Events("push")[n].rec.filePath
            IN  /\ ( /\ Includes(settings.exportPath.s, NamePlaceholder)
                     /\ Truthy(ItemName(i)) /\ ~isEmpty(ItemName(i)) )
                   => /\ ~Includes(filePath, NamePlaceholder)
                      /\ Includes(filePath, ToStr(ItemName(i)) \o <<"/">>)
                /\ ( /\ Includes(settings.exportPath.s, FileNamePlaceholder)
                     /\ Truthy(settings.splitOn) )
                   => ~Includes(filePath, FileNamePlaceholder)

-----------------------------------------------------------------------------
(* C21: the env: form of a condition *)

\* A condition of the form env:VAR, for a variable of the environment that
\* is set to a value other than the empty string, "false" and "0".
EnvPasses(c) ==
    LET envVar == Tail(c.s)
    IN  /\ envVar \in DOMAIN env
        /\ env[envVar] \notin {<<>>, <<"false">>, <<"0">>}

EnvGateCall == last.outcome = "gate" /\ settings.enabled

\* The condition is configured, and of the env: form.
IsEnvCondition(c) == Truthy(c) /\ IsEnvForm(c)

\* C21: for an enabled template, a generateIf of the form env:VAR fails the
\* gate when VAR is absent, empty, "false" or "0" and passes it otherwise
\* (the gate then answers true when no skipIf is configured); a skipIf of the
\* form env:VAR skips when VAR is set to a value other than "false" and "0",
\* and does not otherwise (the gate then answers true when no generateIf is
\* configured); evaluateCondition answers true for the same expression
\* whatever the variable holds: it reads the expression as a path expression
\* of fewer than three parts.
C21_EnvGate ==
    EnvGateCall =>
        /\ IsEnvCondition(settings.generateIf) =>
              /\ ~EnvPasses(settings.generateIf) => last.ret = Bool(FALSE)
              /\ (EnvPasses(settings.generateIf) /\ ~Truthy(settings.skipIf))
                     => last.ret = Bool(TRUE)
              /\ evaluateCondition(settings.generateIf, last.model)
        /\ IsEnvCondition(settings.skipIf) =>
              /\ EnvPasses(settings.skipIf) => last.ret = Bool(FALSE)
              /\ (~EnvPasses(settings.skipIf) /\ ~Truthy(settings.generateIf))
                     => last.ret = Bool(TRUE)
              /\ evaluateCondition(settings.skipIf, last.model)
        /\ (IsEnvCondition(settings.generateIf) /\ IsEnvCondition(settings.skipIf))
              => (last.ret = Bool(TRUE)
                    <=> EnvPasses(settings.generateIf) /\ ~EnvPasses(settings.skipIf))

\* Both conditions are of the env: form, the skipIf variable is set to "0"
\* and the generateIf variable to "1": the gate answers true.
C21_Witness ==
    /\ EnvGateCall
    /\ IsEnvCondition(settings.generateIf) /\ IsEnvCondition(settings.skipIf)
    /\ settings.generateIf # settings.skipIf
    /\ Tail(settings.skipIf.s) \in DOMAIN env /\ env[Tail(settings.skipIf.s)] = <<"0">>
    /\ EnvPasses(settings.generateIf)
    /\ last.ret = Bool(TRUE)

-----------------------------------------------------------------------------
(* C22: the single-output path *)

\* The last call resolved a target that is not an array.
SingleCall == EnabledCall /\ last.target.t \notin {"arr", "unset"}

\* { Model: model, [modelProperty]: model, [targetProperty]: target }
SingleContext ==
    Obj((KeyOf(settings.targetProperty, "target") :> last.target)
        @@ (KeyOf(settings.modelProperty, "model") :> last.model)
        @@ ("Model" :> last.model))

\* The call was skipped as a whole: a skip signal with a reason, the flag
\* lowered, no result and no render.
SingleSkipped ==
    /\ last.outcome = "returned"
    /\ last.ret = SkipSignal(getSkipReason(settings)) /\ last.ret.reason # <<>>
    /\ ~isGenerated
    /\ result = <<>>
    /\ Events("render") = <<>>

\* One render, of the target itself.
SingleRendered ==
    /\ Len(Events("render")) = 1
    /\ Events("render")[1].i = 0

\* One result: the render of the target at the path resolved against it.
SingleResult ==
    LET rendered == Render(template, last.target)
        resolved == prepareExportPath(settings, Null, last.target)
    IN  /\ Len(result) = 1
        /\ ~rendered.threw /\ result[1].content = rendered.s
        /\ ~resolved.threw /\ Str(result[1].filePath) = resolved.path

NoItemHooks ==
    \A k \in 1..Len(last.log) : last.log[k].ev \notin {"prepareItem", "prepareItemModel"}

-----------------------------------------------------------------------------
(* C23: the order of the steps of one generate call *)

\* The place of a step in the pipeline; 0 for a log entry that is no step.
StepRank(ev) ==
    CASE ev = "prepareModel" -> 1
      [] ev = "resolveTarget" -> 2
      [] ev = "prepareTarget" -> 3
      [] ev = "prepareItem" -> 4
      [] ev = "prepareItemModel" -> 5
      [] ev = "shouldGenerate" -> 6
      [] ev = "render" -> 7
      [] ev = "prepareExportPath" -> 8
      [] OTHER -> 0

\* The steps of the last call, in the order they ran.
Steps == SelectSeq(last.log, LAMBDA e : StepRank(e.ev) > 0)

\* How many times a step ran for element i (0: for the call as a whole).
Count(ev, i) == Len(SelectSeq(last.log, LAMBDA e : e.ev = ev /\ e.i = i))

\* Step a comes before step b in the pipeline: an earlier element, or an
\* earlier step of the same element; the path resolution alone repeats, once
\* per section of a split render.
Precedes(a, b) ==
    \/ a.i < b.i
    \/ a.i = b.i /\ StepRank(a.ev) < StepRank(b.ev)
    \/ a.i = b.i /\ a.ev = "prepareExportPath" /\ b.ev = "prepareExportPath"
                 /\ Truthy(settings.splitOn)

\* The target as it is read from what prepareModel returned.
TargetOfModel ==
    LET selected == IF ~isEmpty(settings.target) /\ settings.target # Str(<<"Model">>)
                    THEN GetProp(last.model, settings.target.s)
                    ELSE last.model
    IN  IF HasHook(script, "prepareTarget") THEN ApplyHook(script.prepareTarget, selected)
        ELSE selected

\* The steps of element i of a call that returned: each hook of the script
\* once, the condition check once, on the item model the hooks returned, and
\* the render and the path resolution when the check passed.
ElementSteps(i) ==
    /\ HasHook(script, "prepareItem") => Count("prepareItem", i) = 1
    /\ HasHook(script, "prepareItemModel") => Count("prepareItemModel", i) = 1
    /\ Count("shouldGenerate", i) = 1
    /\ Count("render", i) = IF shouldGenerate(settings, env, ItemContext(i)) THEN 1 ELSE 0
    /\ ~Truthy(settings.splitOn) => Count("prepareExportPath", i) = Count("render", i)

\* C23: within one generate call prepareModel runs once, before the target
\* is resolved, and the target is read from what it returned; prepareTarget
\* runs once after that; then, for each element in the order of the target
\* array: prepareItem, prepareItemModel, the condition check on the item model
\* the hooks returned, the render, the path resolution, every step of an
\* element before any step of the next.  (A hook runs when the script defines
\* it, and a step when the call gets to it.)
C23_PipelineOrder ==
    EnabledCall =>
        /\ \A j, k \in 1..Len(Steps) : j < k => Precedes(Steps[j], Steps[k])
        /\ HasHook(script, "prepareModel") => Count("prepareModel", 0) = 1
        /\ last.model # Unset =>
              /\ Count("resolveTarget", 0) = 1
              /\ HasHook(script, "prepareTarget") => Count("prepareTarget", 0) = 1
        /\ last.target # Unset => last.target = TargetOfModel
        /\ ArrayCall =>
              /\ \A k \in 1..Len(Steps) : Steps[k].i <= Len(last.target.e)
              /\ \A i \in 1..Len(last.target.e) :
                    /\ Did("render", i) => shouldGenerate(settings, env, ItemContext(i))
                    /\ (last.outcome = "returned" \/ i < LastItem) => ElementSteps(i)

\* A call over two elements, every hook defined, prepareModel returning a
\* changed copy of the model, both elements rendered.
C23_Witness ==
    /\ ArrayCall /\ last.outcome = "returned"
    /\ Len(last.target.e) = 2
    /\ HasHook(script, "prepareModel") /\ HasHook(script, "prepareTarget")
    /\ HasHook(script, "prepareItem") /\ HasHook(script, "prepareItemModel")
    /\ last.model # callerModel
    /\ Did("render", 1) /\ Did("render", 2)
    /\ Len(Steps) = 13

-----------------------------------------------------------------------------
(* C24: watch mode, runs that overlap *)

\* The writes that run n completed, in order.
WritesOf(n) == SelectSeq(watch.writes, LAMBDA w : w.run = n)

\* The results of the templates of a run, template after template.
RECURSIVE ResultsOf(_)
ResultsOf(templates) ==
    IF templates = <<>> THEN <<>>
    ELSE Head(templates).f.result \o ResultsOf(Tail(templates))

\* The write that completed last on a path.
LastWriteTo(path) ==
    LET at == CHOOSE k \in 1..Len(watch.writes) :
                 /\ watch.writes[k].path = path
                 /\ \A later \in (k + 1)..Len(watch.writes) : watch.writes[later].path # path
    IN  watch.writes[at]

\* C24: in watch mode no run is cancelled and none waits for another: every
\* run started is in flight or has settled, a run that settled without an
\* error has completed the write of each of its results, in order, whatever
\* other runs were in flight, and each file written holds the content of the
\* last write completed on its path.  (That a run starts while another is in
\* flight is the state C24_Witness describes.)
C24_RunsOverlap ==
    /\ \A n \in 1..Len(watch.runs) :
          LET run == watch.runs[n]
          IN  /\ run.phase \in {"ready", "running", "returned", "threw"}
              /\ (run.phase = "returned" /\ run.errors = <<>>) =>
                    WritesOf(n) = [k \in 1..Len(ResultsOf(run.templates)) |->
                                      [run |-> n,
                                       path |-> ResultsOf(run.templates)[k].filePath,
                                       content |-> ResultsOf(run.templates)[k].content]]
    /\ \A k \in 1..Len(watch.writes) :
          LET at == PathSegments(watch.writes[k].path, <<>>)
          IN  /\ at \in DOMAIN disk
              /\ disk[at] = File(LastWriteTo(watch.writes[k].path).content)

\* Two runs are in flight at once, the later one started while the earlier
\* one was awaiting a write, and writes of both have landed.
C24_Witness ==
    \E a, b \in 1..Len(watch.runs) :
        /\ a < b
        /\ InFlight(watch.runs[a]) /\ InFlight(watch.runs[b])
        /\ watch.runs[a].model # watch.runs[b].model
        /\ WritesOf(a) # <<>> /\ WritesOf(b) # <<>>
        /\ watch.writes[Len(watch.writes)].run = a

-----------------------------------------------------------------------------
(* C25: the plugin registry *)

\* The hook list of a hook name as the registered plugins give it: the
\* handler of each plugin that defines one, in the order of registration.
HandlersOf(plugins, hookName) ==
    LET defining == SelectSeq(plugins, LAMBDA p : hookName \in p.handlers)
    IN  [k \in 1..Len(defining) |->
            [pluginName |-> defining[k].name, handler |-> Handler(defining[k], hookName)]]

\* Every handler stored belongs to a plugin that is registered, and the
\* lists are in registration order.
HooksOfRegistered ==
    \A h \in HookNames : pluginManager.hooks[h] = HandlersOf(pluginManager.plugins, h)

\* A register call that threw left the plugins and the hook lists as they
\* were.
RejectedLeavesUnchanged ==
    (pluginManager.last.op = "register" /\ pluginManager.last.threw) =>
        /\ pluginManager.plugins = pluginManager.last.before.plugins
        /\ pluginManager.hooks = pluginManager.last.before.hooks

\* The last call that settled ran the handlers of a hook name.
ExecutionSettled ==
    pluginManager.last.op \in {"executeHooksSync", "transform", "executeHooks",
                               "executeHooks, registry changed"}

\* The handlers registered for the hook name when the call was made.
RegisteredHandlers ==
    LET list == pluginManager.last.before.hooks[pluginManager.last.hookName]
    IN  [k \in 1..Len(list) |-> list[k].handler]

\* The call invoked every handler registered, in order.
InvokedAll == pluginManager.last.invoked = RegisteredHandlers

\* The call invoked the handlers registered, in order, as far as the first
\* that threw, and threw with it; transform returned the data as the handlers
\* passed it on.
InvokedUntilThrow ==
    LET invoked == pluginManager.last.invoked
        n == Len(invoked)
    IN  /\ n <= Len(RegisteredHandlers)
        /\ invoked = SubSeq(RegisteredHandlers, 1, n)
        /\ \A k \in 1..(n - 1) : ~invoked[k].throws
        /\ pluginManager.last.threw <=> (n > 0 /\ invoked[n].throws)
        /\ ~pluginManager.last.threw => n = Len(RegisteredHandlers)
        /\ (pluginManager.last.op = "transform" /\ ~pluginManager.last.threw) =>
              pluginManager.last.ret = <<0>> \o [k \in 1..n |-> invoked[k].plugin]

\* C25 (as claimed): after any sequence of register, unregister and clear
\* calls, rejected ones included, every handler stored in a hook list belongs
\* to a registered plugin, a rejected register leaves plugins and hook lists
\* unchanged, and executeHooks, executeHooksSync and transform invoke the
\* remaining handlers of the hook type in registration order.
C25_RegistryAsClaimed ==
    /\ HooksOfRegistered
    /\ RejectedLeavesUnchanged
    /\ ExecutionSettled => InvokedAll

\* C25 (amended): the same, the handlers being invoked as far as the first
\* that throws, and, for executeHooks, in a call during which the registry is
\* not changed.
C25_Registry ==
    /\ HooksOfRegistered
    /\ RejectedLeavesUnchanged
    /\ (ExecutionSettled /\ pluginManager.last.op # "executeHooks, registry changed")
          => InvokedUntilThrow

\* After a was registered before b, unregistered and registered again as
\* another object, a transform runs b's handler and then the new a's.
C25_Witness ==
    /\ pluginManager.last.op = "transform" /\ ~pluginManager.last.threw
    /\ pluginManager.last.ret = <<0, 3, 2>>
    /\ Len(pluginManager.hooks["onBeforeGenerate"]) = 1

-----------------------------------------------------------------------------
(* C26: isGenerated after a sequence of calls *)

\* The last call ran to its end and generated: it did not throw and did not
\* return a skip signal.
LastCallGenerated == last.outcome = "returned" /\ last.ret = Undefined

\* C26: after any sequence of generate calls on a loaded template,
\* isGenerated is true exactly when the most recent call ran to completion
\* and generated; a call that throws leaves it false even when the call
\* before it succeeded.
C26_IsGeneratedReflectsLastCall ==
    (isLoaded /\ calls > 0) => (isGenerated <=> LastCallGenerated)

-----------------------------------------------------------------------------
(* C27: the reason recorded with a skip *)

\* The generateIf condition is configured and fails for the context.
GenerateIfFailed(context) ==
    /\ Truthy(settings.generateIf)
    /\ IF IsEnvForm(settings.generateIf) THEN ~EnvSet(EnvValue(env, settings.generateIf))
       ELSE ~evaluateCondition(settings.generateIf, context)

\* The skipIf condition is configured and holds for the context.
SkipIfHeld(context) ==
    /\ Truthy(settings.skipIf)
    /\ IF IsEnvForm(settings.skipIf) THEN EnvSet(EnvValue(env, settings.skipIf))
       ELSE evaluateCondition(settings.skipIf, context)

RefersToGenerateIf(reason) ==
    reason # <<>> /\ reason[1] = "GenerateIf condition not met: "

RefersToSkipIf(reason) == reason # <<>> /\ reason[1] = "SkipIf condition met: "

\* The reason names the condition that caused the skip of the context.
ReasonNamesCause(reason, context) ==
    /\ RefersToGenerateIf(reason) => GenerateIfFailed(context)
    /\ RefersToSkipIf(reason) => SkipIfHeld(context)
    /\ (Truthy(settings.generateIf) /\ ~GenerateIfFailed(context) /\ SkipIfHeld(context))
          => RefersToSkipIf(reason)

\* A skip of the last call that the skipIf condition alone caused, with both
\* conditions configured.
SkippedBySkipIfAlone ==
    /\ ArrayCall
    /\ \E k \in 1..Len(Events("skip")) :
          /\ ~GenerateIfFailed(ItemContext(Events("skip")[k].i))
          /\ SkipIfHeld(ItemContext(Events("skip")[k].i))
          /\ Truthy(settings.generateIf)

\* C27: whenever an enabled template skips an element, or the whole target
\* that is not an array, the recorded reason refers to generateIf only if the
\* generateIf condition failed and to skipIf only if the skipIf condition
\* held; when both are configured and skipIf alone caused the skip, the
\* reason is the SkipIf reason.
C27_SkipReasonNamesCause ==
    /\ ArrayCall =>
          \A k \in 1..Len(Events("skip")) :
              ReasonNamesCause(skippedItems[k].reason, ItemContext(Events("skip")[k].i))
    /\ (SingleCall /\ last.outcome = "returned" /\ last.ret # Undefined) =>
          ReasonNamesCause(last.ret.reason, SingleContext)

-----------------------------------------------------------------------------
(* C28: generate on a template that is not loaded *)

\* C28: a generate call on a template with isLoaded false throws and leaves
\* the template's state as it was; the load-phase error records, which the
\* thrown message tells the caller to inspect, are still in the errors list.
C28_RejectedKeepsDiagnostics ==
    [][~isLoaded =>
          /\ last'.outcome = "threw"
          /\ errors' = errors
          /\ result' = result /\ skippedItems' = skippedItems
          /\ isGenerated' = isGenerated /\ isLoaded' = isLoaded]_vars

-----------------------------------------------------------------------------
(* C29: the caller's model object across a generate call *)

\* Every hook of the script is absent or returns its argument.
HooksIdentityOrAbsent ==
    script # Null =>
        \A h \in {"prepareModel", "prepareTarget", "prepareItem", "prepareItemModel"} :
            script[h].kind \in {"absent", "identity"}

\* C29: generate does not mutate its input: with hooks that are identity or
\* absent, after the call has returned or thrown, the caller's model object
\* and every object reachable from it have the properties and values they
\* had before the call; path resolution adds no FileName property.
C29_InputNotMutated ==
    [][HooksIdentityOrAbsent => callerModel' = callerModel]_vars

-----------------------------------------------------------------------------
(* C30: the order of the writes of a template's results *)

\* A call of write or writeAsync has been made on the template.
TemplateWriteCall == last.outcome \in {"writing", "written", "write threw"}

\* The writes are made one at a time in the order of the result list: the
\* write of result n is started, then ends, and only then is the write of
\* result n + 1 started.
OneAtATime ==
    \A n \in 1..Len(last.log) :
        /\ last.log[n].n = (n + 1) \div 2
        /\ IF n % 2 = 1 THEN last.log[n].ev = "start" ELSE last.log[n].ev \in {"end", "threw"}
        /\ last.log[n].ev = "threw" => n = Len(last.log)

\* The contents of the results that resolve to the path, in result order.
RECURSIVE ContentsTo(_, _)
ContentsTo(results, p) ==
    IF results = <<>> THEN <<>>
    ELSE (IF PathSegments(Head(results).filePath, <<>>) = p THEN Head(results).content
          ELSE <<>>) \o ContentsTo(Tail(results), p)

\* The paths several of the results resolve to.
SharedPaths ==
    { PathSegments(result[a].filePath, <<>>) :
        a \in { a \in 1..Len(result) :
                  \E b \in 1..Len(result) :
                      b # a /\ result[b].filePath = result[a].filePath } }

\* What the claim says of a finished call in append mode: every file that
\* several results resolve to and that did not exist before the call holds
\* the concatenation of their contents in result order.
AppendedInOrder ==
    \A p \in SharedPaths :
        p \notin DOMAIN last.before =>
            /\ p \in DOMAIN disk
            /\ disk[p] = File(ContentsTo(result, p))

====
